---- MODULE Spec2Model ----
(***************************************************************************)
(* Model of the download engine of the launcher backend                    *)
(* (src-tauri/src/services/download_manager.rs): planner, session          *)
(* orchestration (run_download and its epilogue in start_download), chunk  *)
(* workers, control signal, storage budget and the bandwidth throttler.    *)
(*                                                                         *)
(* Sizes are counted in MiB.  A file's content is the sequence of its      *)
(* chunk-sized regions; a region holds the bytes of one chunk (named by    *)
(* that chunk's hash), "zero" (preallocated, never written) or "old"       *)
(* (bytes of a previous install).                                          *)
(***************************************************************************)
EXTENDS Integers, Sequences, FiniteSets, TLC

(***************************************************************************)
(* Bounds of the model                                                     *)
(***************************************************************************)
\* number of start_download calls explored for the one download id
MaxStarts == 2
\* number of process exits explored
MaxCrashes == 1
\* number of pause, resume and cancel calls explored
MaxControls == 2

(***************************************************************************)
(* Program constants (MiB)                                                 *)
(***************************************************************************)
STORAGE_SAFETY_MARGIN_BYTES == 256
MAX_STORAGE_SAFETY_MARGIN_BYTES == 2048
DEFAULT_CHUNK_SIZE == 1
DEFAULT_DEPOTCACHE_MAX_BYTES == 65536

Min(a, b) == IF a < b THEN a ELSE b
Max(a, b) == IF a > b THEN a ELSE b
\* u64::saturating_sub
SatSub(a, b) == IF a > b THEN a - b ELSE 0

RECURSIVE SumSeq(_)
SumSeq(s) == IF s = <<>> THEN 0 ELSE Head(s) + SumSeq(Tail(s))

RECURSIVE Concat(_)
Concat(ss) == IF ss = <<>> THEN <<>> ELSE Head(ss) \o Concat(Tail(ss))

Range(s) == {s[i] : i \in 1..Len(s)}

(***************************************************************************)
(* Paths: a relative path is a sequence of std::path::Component values.    *)
(***************************************************************************)
Normal(stem, ext) == [k |-> "Normal", stem |-> stem, ext |-> ext]
ParentDir == [k |-> "ParentDir", stem |-> "..", ext |-> ""]
RootDir == [k |-> "RootDir", stem |-> "/", ext |-> ""]
Prefix == [k |-> "Prefix", stem |-> "C:", ext |-> ""]

\* the install directory, as the components below the filesystem root
InstallDir == <<Normal("games", ""), Normal("slug", "")>>

is_safe_relative_path(path) ==
    \A i \in 1..Len(path) : path[i].k \notin {"Prefix", "RootDir", "ParentDir"}

\* Path::with_extension: replaces the extension of the file name
with_extension(path, ext) ==
    IF path # <<>> /\ path[Len(path)].k = "Normal"
    THEN [path EXCEPT ![Len(path)].ext = ext]
    ELSE path

\* Where install_dir.join(rel) lies once the OS resolves it: a root or a
\* prefix restarts from the filesystem root, ".." pops a component.
RECURSIVE ResolveFrom(_, _)
ResolveFrom(base, rel) ==
    IF rel = <<>> THEN base
    ELSE LET c == Head(rel) IN
         IF c.k \in {"RootDir", "Prefix"} THEN ResolveFrom(<<>>, Tail(rel))
         ELSE IF c.k = "ParentDir"
              THEN ResolveFrom(IF base = <<>> THEN <<>>
                               ELSE SubSeq(base, 1, Len(base) - 1), Tail(rel))
              ELSE ResolveFrom(Append(base, c), Tail(rel))

Join(rel) == ResolveFrom(InstallDir, rel)

InsideInstallDir(rel) ==
    LET abs == Join(rel) IN
    /\ Len(abs) > Len(InstallDir)
    /\ SubSeq(abs, 1, Len(InstallDir)) = InstallDir

\* scan_manifest_file: path.replace('\\', "/").trim_start_matches('/')
ScanRelative(path) ==
    IF path # <<>> /\ Head(path).k = "RootDir" THEN Tail(path) ELSE path

PathA == <<Normal("a", "bin")>>
PathB == <<Normal("data", ""), Normal("b", "bin")>>
PathBUp == <<ParentDir, Normal("b", "bin")>>
PathBZip == <<Normal(".chunks", ""), Normal("b", "zip")>>
PathObsolete == <<Normal("old", "dat")>>
MANIFEST_FILE == <<Normal("manifest", "json")>>

\* names of the entries of the zip archive the archive-mode manifest carries
ZipEntries ==
    << <<Normal("game", "exe")>>,
       <<ParentDir, ParentDir, Normal("evil", "exe")>>,
       <<RootDir, Normal("evil", "exe")>>,
       <<Prefix, Normal("evil", "exe")>> >>

(***************************************************************************)
(* Manifests                                                               *)
(***************************************************************************)
Chunk(index, hash, size) == [index |-> index, hash |-> hash, size |-> size]

FileOf(file_id, path, hash, hashes, cs) ==
    [ file_id |-> file_id, path |-> path, size |-> Len(hashes) * cs, hash |-> hash,
      chunks |-> [i \in 1..Len(hashes) |-> Chunk(i - 1, hashes[i], cs)] ]

ManifestOf(files, mode, cs) ==
    [ chunk_size |-> cs,
      install_mode |-> mode,
      archive_dir |-> ".chunks",
      archive_cleanup |-> TRUE,
      archive_files |-> <<>>,
      total_size |-> SumSeq([i \in 1..Len(files) |-> files[i].size]),
      files |-> files ]

\* the manifest.json a previous install left: file a.bin with other bytes and a
\* file the new manifest no longer lists
OldManifest ==
    [ chunk_size |-> 1,
      install_mode |-> "files",
      archive_dir |-> ".chunks",
      archive_cleanup |-> FALSE,
      archive_files |-> <<>>,
      total_size |-> 2,
      files |-> << [ file_id |-> "fA", path |-> PathA, size |-> 1, hash |-> "HAold",
                     chunks |-> <<Chunk(0, "hAold", 1)>> ],
                   [ file_id |-> "fO", path |-> PathObsolete, size |-> 1, hash |-> "HO",
                     chunks |-> <<Chunk(0, "hO", 1)>> ] >> ]

Hashes == {"hA0", "hA1", "hB0"}
ChunkKeys == {<<"fA", 0>>, <<"fA", 1>>, <<"fB", 0>>}

is_archive_mode(m) == m.install_mode = "archive_chunks"

\* file.path.starts_with(archive_dir) && ends_with(".zip")
IsArchiveZip(m, f) ==
    /\ f.path # <<>>
    /\ Head(f.path).stem = m.archive_dir
    /\ f.path[Len(f.path)].ext = "zip"

(***************************************************************************)
(* Disk contents                                                           *)
(***************************************************************************)
Absent == <<"absent">>
ManifestOldContent == <<"manifest_old">>
ManifestNewContent == <<"manifest_new">>
OldContent == <<"old">>

AllPaths ==
    LET finals == {PathA, PathB, PathBUp, PathBZip, PathObsolete}
    IN finals \cup {with_extension(p, "part") : p \in finals}
              \cup {MANIFEST_FILE, with_extension(MANIFEST_FILE, "tmp")}
              \cup Range(ZipEntries)

Exists(d, p) == d[p] # Absent
\* metadata.len() in MiB, for a data file whose regions are cs MiB each
FileLen(d, p, cs) == IF Exists(d, p) THEN Len(d[p]) * cs ELSE 0

\* the bytes a manifest file must hold
Expected(f) == [i \in 1..Len(f.chunks) |-> f.chunks[i].hash]

\* File::set_len in regions: truncate or pad with zeros
SetLen(content, n) ==
    [i \in 1..n |-> IF i <= Len(content) THEN content[i] ELSE "zero"]

\* write_chunk's effect on a file's content: seek to offset, write one region
WriteRegion(content, idx, hash) ==
    LET base == IF content = Absent THEN <<>> ELSE content
        n == Max(Len(base), idx + 1)
    IN [i \in 1..n |-> IF i = idx + 1 THEN hash
                       ELSE IF i <= Len(base) THEN base[i] ELSE "zero"]

(***************************************************************************)
(* Depot cache (content-addressed chunk store)                             *)
(* depot[h] is "absent", "ok" (entry of the chunk's length holding the     *)
(* chunk's bytes) or "bad" (entry of that length holding other bytes).     *)
(***************************************************************************)
has_candidate(dp, hash) == dp[hash] # "absent"

\* load_valid_chunk: the bytes, when the entry's digest matches
DepotLoads(dp, hash) == dp[hash] = "ok"
\* load_valid_chunk's effect: an entry whose digest differs is removed
DepotAfterLoad(dp, hash) == IF dp[hash] = "bad" THEN [dp EXCEPT ![hash] = "absent"] ELSE dp

\* store_chunk: no-op when an entry of the same length exists
store_chunk(dp, hash) == IF dp[hash] # "absent" THEN dp ELSE [dp EXCEPT ![hash] = "ok"]

DepotTotalBytes(dp, cs) == Cardinality({h \in DOMAIN dp : dp[h] # "absent"}) * cs

\* gc_if_needed: nothing is removed while the total is within max_bytes; the
\* depot of this model never exceeds DEFAULT_DEPOTCACHE_MAX_BYTES entries' worth
gc_if_needed(dp, cs) ==
    IF DepotTotalBytes(dp, cs) <= DEFAULT_DEPOTCACHE_MAX_BYTES THEN dp
    ELSE [h \in DOMAIN dp |-> "absent"]

(***************************************************************************)
(* Planner                                                                 *)
(***************************************************************************)
NoManifest ==
    [ chunk_size |-> 0, install_mode |-> "files", archive_dir |-> ".chunks",
      archive_cleanup |-> FALSE, archive_files |-> <<>>, total_size |-> 0,
      files |-> <<>> ]

\* load_previous_manifest(install_dir).ok(): None is the manifest with no files
load_previous_manifest(d, current) ==
    IF d[MANIFEST_FILE] = ManifestOldContent THEN OldManifest
    ELSE IF d[MANIFEST_FILE] = ManifestNewContent THEN current
    ELSE NoManifest

chunk_region_exists(d, path, offset, size, cs) ==
    Exists(d, path) /\ FileLen(d, path, cs) >= offset + size

PlanChunkSize(m) == IF m.chunk_size > 0 THEN m.chunk_size ELSE DEFAULT_CHUNK_SIZE

\* completed.get(&(file_id, index)) == Some(chunk.hash)
CompletedHashMatches(rows, fid, ch) ==
    \E r \in rows : r.file_id = fid /\ r.chunk_index = ch.index /\ r.hash = ch.hash

ChunkAlreadyDone(m, d, rows, f, ch) ==
    /\ CompletedHashMatches(rows, f.file_id, ch)
    /\ chunk_region_exists(d, with_extension(f.path, "part"),
                           ch.index * PlanChunkSize(m), ch.size, PlanChunkSize(m))

JobOf(m, f, ch) ==
    [ file_id |-> f.file_id,
      temp_path |-> with_extension(f.path, "part"),
      index |-> ch.index,
      offset |-> ch.index * PlanChunkSize(m),
      size |-> ch.size,
      hash |-> ch.hash ]

FileJobs(m, d, rows, f) ==
    LET pending == SelectSeq(f.chunks, LAMBDA ch : ~ChunkAlreadyDone(m, d, rows, f, ch))
    IN [i \in 1..Len(pending) |-> JobOf(m, f, pending[i])]

FilePrecompleted(m, d, rows, f) ==
    LET done == SelectSeq(f.chunks, LAMBDA ch : ChunkAlreadyDone(m, d, rows, f, ch))
    IN [i \in 1..Len(done) |->
          [file_id |-> f.file_id, chunk_index |-> done[i].index,
           hash |-> done[i].hash, size |-> done[i].size]]

\* a file enters files_to_finalize only when one of its chunks is still to fetch
NeedsFinalize(m, d, rows, f) == FileJobs(m, d, rows, f) # <<>>

FilePlanOf(f) ==
    [final_path |-> f.path, temp_path |-> with_extension(f.path, "part"), size |-> f.size]

PlanDeleteFiles(m, old) ==
    LET archivePart ==
            IF is_archive_mode(m)
            THEN SelectSeq(old.archive_files,
                    LAMBDA p : /\ p \notin Range(m.archive_files)
                               /\ p # <<>>
                               /\ Head(p).stem # m.archive_dir
                               /\ p # MANIFEST_FILE
                               /\ is_safe_relative_path(p))
            ELSE <<>>
        gone == SelectSeq(old.files,
                    LAMBDA of : \A i \in 1..Len(m.files) : m.files[i].path # of.path)
    IN archivePart \o [i \in 1..Len(gone) |-> gone[i].path]

build_download_plan(m, d, rows, old) ==
    LET toFinalize == SelectSeq(m.files, LAMBDA f : NeedsFinalize(m, d, rows, f))
        pre == Concat([i \in 1..Len(m.files) |-> FilePrecompleted(m, d, rows, m.files[i])])
    IN [ chunks |-> Concat([i \in 1..Len(m.files) |-> FileJobs(m, d, rows, m.files[i])]),
         total_bytes |-> SumSeq([i \in 1..Len(m.files) |->
                                  SumSeq([j \in 1..Len(m.files[i].chunks) |->
                                            m.files[i].chunks[j].size])]),
         preexisting_bytes |-> SumSeq([i \in 1..Len(pre) |-> pre[i].size]),
         files_to_finalize |-> [i \in 1..Len(toFinalize) |-> FilePlanOf(toFinalize[i])],
         delete_files |-> PlanDeleteFiles(m, old),
         precompleted_chunks |-> pre ]

EmptyPlan ==
    [ chunks |-> <<>>, total_bytes |-> 0, preexisting_bytes |-> 0,
      files_to_finalize |-> <<>>, delete_files |-> <<>>, precompleted_chunks |-> <<>> ]

(***************************************************************************)
(* Storage budget                                                          *)
(***************************************************************************)
estimate_reclaimable_bytes(d, paths, cs) ==
    SumSeq([i \in 1..Len(paths) |-> FileLen(d, paths[i], cs)])

estimate_preallocate_bytes(d, pl, cs) ==
    SumSeq([i \in 1..Len(pl.files_to_finalize) |->
              SatSub(pl.files_to_finalize[i].size,
                     FileLen(d, pl.files_to_finalize[i].temp_path, cs))])

RECURSIVE CacheWriteFrom(_, _, _)
CacheWriteFrom(dp, jobs, seen) ==
    IF jobs = <<>> THEN 0
    ELSE LET j == Head(jobs) IN
         IF j.hash \in seen THEN CacheWriteFrom(dp, Tail(jobs), seen)
         ELSE (IF has_candidate(dp, j.hash) THEN 0 ELSE j.size)
              + CacheWriteFrom(dp, Tail(jobs), seen \cup {j.hash})

estimate_cache_write_bytes(dp, jobs) == CacheWriteFrom(dp, jobs, {})

OldHashOf(old, path) ==
    LET hit == SelectSeq(old.files, LAMBDA f : f.path = path)
    IN IF hit = <<>> THEN "none" ELSE hit[Len(hit)].hash

estimate_extraction_bytes(m, old) ==
    IF ~is_archive_mode(m) THEN 0
    ELSE LET zips == SelectSeq(m.files, LAMBDA f : IsArchiveZip(m, f))
             changed == SelectSeq(zips, LAMBDA f : OldHashOf(old, f.path) # f.hash)
             total_archive_bytes == SumSeq([i \in 1..Len(zips) |-> zips[i].size])
             changed_archive_bytes == SumSeq([i \in 1..Len(changed) |-> changed[i].size])
             total_extracted_bytes == Max(m.total_size, changed_archive_bytes)
         IN IF changed_archive_bytes = 0 THEN 0
            ELSE IF total_archive_bytes = 0 THEN total_extracted_bytes
            ELSE IF total_extracted_bytes <= total_archive_bytes
                 THEN Max(changed_archive_bytes, total_extracted_bytes)
                 ELSE (total_extracted_bytes * changed_archive_bytes) \div total_archive_bytes

\* a safety margin that misses the cap
SafetyBytesUncapped(base_required) ==
    Max(STORAGE_SAFETY_MARGIN_BYTES, base_required \div 20)

\* safety_bytes: STORAGE_SAFETY_MARGIN_BYTES.max(base_required / 20).min(MAX_...)
SafetyBytes(base_required) ==
    Min(Max(STORAGE_SAFETY_MARGIN_BYTES, base_required \div 20),
        MAX_STORAGE_SAFETY_MARGIN_BYTES)

evaluate_storage_budget(avail, d, dp, m, pl, old) ==
    LET cs == PlanChunkSize(m)
        reclaimable == estimate_reclaimable_bytes(d, pl.delete_files, cs)
        preallocate == estimate_preallocate_bytes(d, pl, cs)
        extraction == estimate_extraction_bytes(m, old)
        cache == estimate_cache_write_bytes(dp, pl.chunks)
        base_required == preallocate + extraction + cache
    IN [ available_bytes |-> avail,
         reclaimable_bytes |-> reclaimable,
         preallocate_bytes |-> preallocate,
         extraction_bytes |-> extraction,
         cache_write_bytes |-> cache,
         safety_bytes |-> SafetyBytes(base_required),
         required_bytes |-> base_required + SafetyBytes(base_required) ]

\* run_download: available_after_cleanup < required_bytes fails the session
BudgetInsufficient(b) == b.available_bytes + b.reclaimable_bytes < b.required_bytes

NoBudget ==
    [ available_bytes |-> 0, reclaimable_bytes |-> 0, preallocate_bytes |-> 0,
      extraction_bytes |-> 0, cache_write_bytes |-> 0, safety_bytes |-> 0,
      required_bytes |-> 0 ]

(***************************************************************************)
(* Session state                                                           *)
(***************************************************************************)
VARIABLES
    manifest,      \* the manifest the API serves for the slug
    disk,          \* file contents, by path relative to install_dir
    depot,         \* depot cache entries, by chunk hash
    dbStatus,      \* download_states.status of the download id ("none": no row)
    dlRow,         \* downloads.status of the download id ("none": no row)
    chunkRows,     \* download_chunks rows with status completed
    pc,            \* position of the session task ("idle": id not in the registry)
    control,       \* value of the watch channel of the registered handle
    result,        \* what run_download returned to the spawned task
    plan,          \* the DownloadPlan of the running session
    oldm,          \* old_manifest as run_download loaded it
    workers,       \* position of the chunk task of each job
    chan,          \* ChunkResult messages in the mpsc channel
    chanOpen,      \* whether the receiver of the channel is still alive
    permits,       \* free permits of the session's semaphore
    tracker,       \* ProgressTracker.downloaded_bytes
    lastProgress,  \* ProgressReporter.last_progress
    orphans,       \* jobs whose chunk task outlived its session task
    starts,        \* start_download calls so far
    crashes,       \* process exits so far
    controls,      \* pause, resume and cancel calls so far
    obs            \* observations of the current run, for the properties

sessVars == <<manifest, disk, depot, dbStatus, dlRow, chunkRows, pc, control, result,
              plan, oldm, workers, chan, chanOpen, permits, tracker, lastProgress,
              orphans, starts, crashes, controls, obs>>

(***************************************************************************)
(* Bandwidth throttler state.  Time advances in ticks of 100 ms, the sleep  *)
(* of acquire between two attempts.                                        *)
(***************************************************************************)
VARIABLES
    thrMax,        \* BandwidthThrottler.max_bytes_per_second
    thrCurrent,    \* BandwidthThrottler.current_window_bytes
    thrClock,      \* ticks since the reset task was started
    thrNextReset,  \* tick of the next interval.tick() of the reset task
    thrCallers,    \* position of each caller of acquire
    thrLog         \* bytes acquire returned for under a positive limit, per tick,
                   \* over the last second

thrVars == <<thrMax, thrCurrent, thrClock, thrNextReset, thrCallers, thrLog>>

(***************************************************************************)
(* Depot cache state (DepotCache): the files below the depot root, keyed   *)
(* by the file stem of the entry path, and one gc_if_needed call in        *)
(* progress.                                                               *)
(***************************************************************************)
VARIABLES
    dcFiles,       \* entry stem -> the bytes held there, or "absent"
    dcMtime,       \* entry stem -> modification time
    dcClock,       \* filesystem time, advanced by every write
    dcLast,        \* the last depot call that returned
    dcStored,      \* arguments of the store_chunk call that returned Ok last, if no
                   \* other depot call came after it
    gcPc,          \* position of the gc_if_needed call
    gcEntries,     \* its local `entries`, the part not yet visited
    gcTotal,       \* its local `total`
    gcSeen         \* what it collected and what it removed

dcVars == <<dcFiles, dcMtime, dcClock, dcLast, dcStored, gcPc, gcEntries, gcTotal, gcSeen>>

(***************************************************************************)
(* One write_manifest call followed step by step: manifest.json and the    *)
(* temporary file beside it, each a sequence of written blocks.            *)
(***************************************************************************)
VARIABLES
    mfDisk,        \* path -> content of manifest.json and of the temporary file
    mfPc,          \* position of the write_manifest call
    mfPayload,     \* its `payload`
    mfPrev,        \* content of manifest.json when the call began
    mfResult,      \* what the call returned
    mfRead,        \* what load_previous_manifest returned afterwards
    mfCalls        \* write_manifest calls so far

mfVars == <<mfDisk, mfPc, mfPayload, mfPrev, mfResult, mfRead, mfCalls>>

(***************************************************************************)
(* Peer cache server (peer_cache_server.rs): its mode, the connection      *)
(* being handled and the response written to it.                           *)
(***************************************************************************)
VARIABLES
    peerMode,      \* PeerCacheServerState.mode
    peerShare,     \* PeerCacheServerState.share_enabled
    peerPc,        \* position of handle_connection
    peerLast       \* the connection handled last and the response it got

peerVars == <<peerMode, peerShare, peerPc, peerLast>>

(***************************************************************************)
(* Chunk fetcher: the chunk tasks of one session inside download_chunk, the *)
(* messages they send and the receive loop of run_download.                *)
(***************************************************************************)
VARIABLES
    fxCfg,         \* engine, strict mode and preexisting bytes of the session
    fxJob,         \* the ChunkJob of each chunk task
    fxW,           \* position and locals of each chunk task
    fxBlack,       \* session_peer_blacklist
    fxChan,        \* ChunkResult messages in the mpsc channel
    fxRecv,        \* position of the receive loop of run_download
    fxTracker,     \* ProgressTracker.downloaded_bytes
    fxRows,        \* download_chunks rows written by the receive loop
    fxPart,        \* content of the region of each job in its .part file
    fxDepot,       \* depot entry stored for each job
    fxSeen         \* what the receive loop took from each task, for the properties

fxVars == <<fxCfg, fxJob, fxW, fxBlack, fxChan, fxRecv, fxTracker, fxRows, fxPart, fxDepot, fxSeen>>

(***************************************************************************)
(* Self-heal scan (self_heal.rs): the install directory, the NTFS change    *)
(* journal of its volume, the stored checkpoint and the file index.         *)
(***************************************************************************)
VARIABLES
    shDisk,        \* the files of the install directory, by relative path
    shJournal,     \* USN journal of the volume: id, first_usn, next_usn, records
    shCheckpoint,  \* settings row self_heal.usn.<volume>
    shIndex,       \* file_index_v2 rows of the install, by relative path
    shLast,        \* the report of the last scan and what it started from
    shOps          \* file changes, journal events and scans so far

shVars == <<shDisk, shJournal, shCheckpoint, shIndex, shLast, shOps>>

(***************************************************************************)
(* Artwork cache (artwork_cache.rs)                                        *)
(***************************************************************************)
VARIABLES
    awLegacy,      \* legacy_root: the file at each <game>/t<tier>_<dpi>.webp
    awV2,          \* cache_root: the file of each cache key
    awLru,         \* ArtworkCacheService.lru
    awMetrics,     \* ArtworkCacheService.metrics
    awLast,        \* the last call: its key, what it returned, the files it found
    awCalls        \* calls made

awVars == <<awLegacy, awV2, awLru, awMetrics, awLast, awCalls>>

(***************************************************************************)
(* Planner over byte lengths (build_download_plan, write_chunk)            *)
(***************************************************************************)
VARIABLES
    plManifest,    \* the manifest planned
    plCompleted,   \* completed: (file_id, index) -> hash of the completion row
    plMeta,        \* each temp path: whether it exists, its length, whose bytes it got
    plPlan,        \* the DownloadPlan built
    plPc,          \* "idle", "new" or "planned"
    plWritten      \* the jobs of the plan written

plVars == <<plManifest, plCompleted, plMeta, plPlan, plPc, plWritten>>

(***************************************************************************)
(* Writers of one download id (start_download, run_download)               *)
(***************************************************************************)
VARIABLES
    wrRegistry,    \* registry: the run whose DownloadHandle is stored for the id, or "none"
    wrCall,        \* each caller of start_download: "idle", "checked", "returned"
    wrRun,         \* each run_download: "none", "spawned", "running", "ended"
    wrControl,     \* the value of each run's watch channel
    wrTask,        \* each run's chunk tasks: "none", "spawned", "fetch", "write", "done"
    wrChan,        \* each run's mpsc channel
    wrRows,        \* the chunks with a completion row
    wrOps          \* control calls made

wrVars == <<wrRegistry, wrCall, wrRun, wrControl, wrTask, wrChan, wrRows, wrOps>>

(***************************************************************************)
(* Adaptive concurrency governor and the chunk semaphore of one session     *)
(***************************************************************************)
VARIABLES
    gov,           \* AdaptiveConcurrencyGovernor: enabled, min_permits, max_permits, reserved.len(), ages of last_pressure and last_relax
    sem,           \* the semaphore: permits held by chunk tasks and tasks waiting in acquire
    gvChan,        \* ChunkResult messages not yet received
    gvSent         \* NetworkPressure events sent so far

gvVars == <<gov, sem, gvChan, gvSent>>

(***************************************************************************)
(* Concurrent callers of DepotCache::store_chunk for one hash, followed     *)
(* call by system call: the directory of the entry and the files in it      *)
(***************************************************************************)
VARIABLES
    swDir,         \* directory entries: name -> file, 0 when the name does not exist
    swLen,         \* blocks written to each file
    swW,           \* each store_chunk call: position, temporary name, open file
    swRead         \* what the last reader of the entry path found

swVars == <<swDir, swLen, swW, swRead>>

(***************************************************************************)
(* Background work: the depot GC in the epilogue of each session task and   *)
(* the window-reset loop of the throttler                                    *)
(***************************************************************************)
VARIABLES
    bgGc,          \* each session task: "run", inside gc_if_needed ("collect", "remove"), "epilogue", "ended"
    bgReset,       \* reset_started and the window-reset loops spawned
    bgCall         \* each caller of start_reset_task: position and what swap returned

bgVars == <<bgGc, bgReset, bgCall>>

(***************************************************************************)
(* Integrity scan (scan_manifest_integrity_blocking): the scanner threads,   *)
(* the shared index and the result list                                      *)
(***************************************************************************)
VARIABLES
    scFiles,       \* `entries`: the manifest files, each with what the scan of it finds
    scNext,        \* `next_index`, the AtomicUsize
    scW,           \* each scanner thread: position and the index it fetched
    scResults,     \* `results`, the Vec behind the mutex
    scSummary      \* the IntegrityScanSummary returned

scVars == <<scFiles, scNext, scW, scResults, scSummary>>

\* the variables an action of one component leaves alone
notSessVars == <<thrVars, dcVars, mfVars, peerVars, fxVars, shVars, awVars, plVars, wrVars, gvVars, swVars, bgVars, scVars>>
notThrVars == <<sessVars, dcVars, mfVars, peerVars, fxVars, shVars, awVars, plVars, wrVars, gvVars, swVars, bgVars, scVars>>
notDcVars == <<sessVars, thrVars, mfVars, peerVars, fxVars, shVars, awVars, plVars, wrVars, gvVars, swVars, bgVars, scVars>>
notMfVars == <<sessVars, thrVars, dcVars, peerVars, fxVars, shVars, awVars, plVars, wrVars, gvVars, swVars, bgVars, scVars>>
notPeerVars == <<sessVars, thrVars, mfVars, fxVars, shVars, awVars, plVars, wrVars, gvVars, swVars, bgVars, scVars>>

notFxVars == <<sessVars, thrVars, dcVars, mfVars, peerVars, shVars, awVars, plVars, wrVars, gvVars, swVars, bgVars, scVars>>

notShVars == <<sessVars, thrVars, dcVars, mfVars, peerVars, fxVars, awVars, plVars, wrVars, gvVars, swVars, bgVars, scVars>>

notAwVars == <<sessVars, thrVars, dcVars, mfVars, peerVars, fxVars, shVars, plVars, wrVars, gvVars, swVars, bgVars, scVars>>

notPlVars == <<sessVars, thrVars, dcVars, mfVars, peerVars, fxVars, shVars, awVars, wrVars, gvVars, swVars, bgVars, scVars>>

notWrVars == <<sessVars, thrVars, dcVars, mfVars, peerVars, fxVars, shVars, awVars, plVars, gvVars, swVars, bgVars, scVars>>

notGvVars == <<sessVars, thrVars, dcVars, mfVars, peerVars, fxVars, shVars, awVars, plVars, wrVars, swVars, bgVars, scVars>>

notSwVars == <<sessVars, thrVars, dcVars, mfVars, peerVars, fxVars, shVars, awVars, plVars, wrVars, gvVars, bgVars, scVars>>

notBgVars == <<sessVars, thrVars, dcVars, mfVars, peerVars, fxVars, shVars, awVars, plVars, wrVars, gvVars, swVars, scVars>>

notScVars == <<sessVars, thrVars, dcVars, mfVars, peerVars, fxVars, shVars, awVars, plVars, wrVars, gvVars, swVars, bgVars>>

vars == <<sessVars, thrVars, dcVars, mfVars, peerVars, fxVars, shVars, awVars, plVars, wrVars, gvVars, swVars, bgVars, scVars>>

DEFAULT_MAX_CONCURRENT_CHUNKS == 24
MAX_CONCURRENT_CHUNKS == 64

Clamp(x, lo, hi) == Max(lo, Min(x, hi))

resolve_method_concurrency(method_key, max_concurrent_chunks) ==
    LET base == Clamp(max_concurrent_chunks, 1, MAX_CONCURRENT_CHUNKS) IN
    CASE method_key = "auto" -> Clamp(base * 2, 16, MAX_CONCURRENT_CHUNKS)
      [] method_key = "max_speed" -> Clamp(base * 2 + 8, 20, MAX_CONCURRENT_CHUNKS)
      [] method_key = "balance" -> Clamp(base, 12, 40)
      [] method_key = "cdn" -> Clamp(base \div 2, 6, 20)
      [] OTHER -> base

\* requested_method = None normalizes to "auto"
EffectiveConcurrency == resolve_method_concurrency("auto", DEFAULT_MAX_CONCURRENT_CHUNKS)

\* UPDATE download_states SET status = ... WHERE id = ...: no row, no effect
update_download_status(cur, status) == IF cur = "none" THEN "none" ELSE status

\* INSERT OR REPLACE INTO download_chunks, primary key (download_id, file_id, chunk_index)
upsert_download_chunk(rows, row) ==
    {r \in rows : ~(r.file_id = row.file_id /\ r.chunk_index = row.chunk_index)} \cup {row}

(***************************************************************************)
(* Error messages.  The spawned task classifies an error as a cancellation *)
(* when its text contains "download cancelled".  The text of a chunk       *)
(* failure embeds the chunk URLs and a snippet of the HTTP response body.  *)
(***************************************************************************)
NoSnippet == "none"
ErrMsg(text, snippet) == [text |-> text, snippet |-> snippet]
NoError == ErrMsg("", NoSnippet)
\* response body snippets the model explores
Snippets == {NoSnippet, "download cancelled"}

\* err_message.to_ascii_lowercase().contains("download cancelled")
MentionsCancelled(err) ==
    err.text = "download cancelled" \/ err.snippet = "download cancelled"

(***************************************************************************)
(* File operations of a session                                            *)
(***************************************************************************)
RECURSIVE delete_files(_, _)
delete_files(d, paths) ==
    IF paths = <<>> THEN d
    ELSE delete_files([d EXCEPT ![Head(paths)] = Absent], Tail(paths))

\* prepare_files: create the .part file, set_len(size) when the length differs
RECURSIVE prepare_files(_, _, _)
prepare_files(d, files, cs) ==
    IF files = <<>> THEN d
    ELSE LET fp == Head(files)
             cur == IF Exists(d, fp.temp_path) THEN d[fp.temp_path] ELSE <<>>
         IN prepare_files([d EXCEPT ![fp.temp_path] = SetLen(cur, fp.size \div cs)],
                          Tail(files), cs)

\* finalize_files: remove the final file, rename the .part file onto it
RECURSIVE finalize_files(_, _)
finalize_files(d, files) ==
    IF files = <<>> THEN d
    ELSE LET fp == Head(files) IN
         IF Exists(d, fp.temp_path)
         THEN finalize_files([d EXCEPT ![fp.final_path] = d[fp.temp_path],
                                       ![fp.temp_path] = Absent], Tail(files))
         ELSE finalize_files(d, Tail(files))

write_chunk(d, job, cs) ==
    [d EXCEPT ![job.temp_path] = WriteRegion(d[job.temp_path], job.offset \div cs, job.hash)]

RowOf(job) ==
    [file_id |-> job.file_id, chunk_index |-> job.index, hash |-> job.hash, size |-> job.size]

\* hydrate_from_depot_cache: walks plan.chunks in order
RECURSIVE HydrateFrom(_, _, _)
HydrateFrom(acc, jobs, cs) ==
    IF jobs = <<>> THEN acc
    ELSE LET job == Head(jobs) IN
         IF DepotLoads(acc.depot, job.hash)
         THEN HydrateFrom([acc EXCEPT !.disk = write_chunk(acc.disk, job, cs),
                                      !.rows = upsert_download_chunk(acc.rows, RowOf(job)),
                                      !.restored = acc.restored + job.size],
                          Tail(jobs), cs)
         ELSE HydrateFrom([acc EXCEPT !.depot = DepotAfterLoad(acc.depot, job.hash),
                                      !.pending = Append(acc.pending, job)],
                          Tail(jobs), cs)

hydrate_from_depot_cache(d, dp, rows, jobs, cs) ==
    HydrateFrom([disk |-> d, depot |-> dp, rows |-> rows, pending |-> <<>>, restored |-> 0],
                jobs, cs)

\* scan_manifest_file in PostDownload mode
scan_manifest_file(d, f, cs) ==
    LET target == ScanRelative(f.path) IN
    IF ~Exists(d, target) THEN "Missing"
    ELSE IF f.size > 0 /\ FileLen(d, target, cs) # f.size THEN "Corrupt"
    ELSE IF d[target] # Expected(f) THEN "Corrupt"
    ELSE "Ok"

\* post_scan.missing_files > 0 || corrupt_files > 0 || error_files > 0
PostScanFails(d, m) ==
    \E i \in 1..Len(m.files) : scan_manifest_file(d, m.files[i], PlanChunkSize(m)) # "Ok"

\* extract_zip_archive: entries whose name is not a safe relative path are skipped
RECURSIVE ExtractEntries(_, _)
ExtractEntries(d, entries) ==
    IF entries = <<>> THEN d
    ELSE IF Head(entries) = <<>> \/ ~is_safe_relative_path(Head(entries))
         THEN ExtractEntries(d, Tail(entries))
         ELSE ExtractEntries([d EXCEPT ![Head(entries)] = <<"zip_entry">>], Tail(entries))

RECURSIVE ExtractFiles(_, _, _, _)
ExtractFiles(d, m, old, files) ==
    IF files = <<>> THEN d
    ELSE LET f == Head(files) IN
         IF \/ ~IsArchiveZip(m, f)
            \/ OldHashOf(old, f.path) = f.hash
            \/ ~Exists(d, f.path)
         THEN ExtractFiles(d, m, old, Tail(files))
         ELSE LET d1 == ExtractEntries(d, ZipEntries)
                  d2 == IF m.archive_cleanup THEN [d1 EXCEPT ![f.path] = Absent] ELSE d1
              IN ExtractFiles(d2, m, old, Tail(files))

extract_archives(d, m, old) == ExtractFiles(d, m, old, m.files)

\* write_manifest: write manifest.tmp, rename it onto manifest.json
write_manifest(d) ==
    [d EXCEPT ![MANIFEST_FILE] = ManifestNewContent,
              ![with_extension(MANIFEST_FILE, "tmp")] = Absent]

\* ProgressReporter::maybe_report: progress.round() clamped, 1 for (0, 1)
ProgressInt(downloaded, total) ==
    IF total = 0 THEN 0
    ELSE IF downloaded > 0 /\ downloaded * 100 < total THEN 1
    ELSE Clamp((200 * downloaded + total) \div (2 * total), 0, 100)

ReportedStatus(progress_int) == IF progress_int >= 100 THEN "completed" ELSE "downloading"

(***************************************************************************)
(* Initial states: the manifest served and what a previous install and the *)
(* depot cache hold when the download id is first started.                 *)
(***************************************************************************)
\* two files of one chunk of 1 MiB each
ManifestSafe ==
    ManifestOf(<<FileOf("fA", PathA, "HA", <<"hA0">>, 1),
                 FileOf("fB", PathB, "HB", <<"hB0">>, 1)>>, "files", 1)
\* one file of two chunks
ManifestSplit == ManifestOf(<<FileOf("fA", PathA, "HA", <<"hA0", "hA1">>, 1)>>, "files", 1)
\* an update: one file, at the path of a file of the previous install
ManifestUpdate == ManifestOf(<<FileOf("fA", PathA, "HA", <<"hA0">>, 1)>>, "files", 1)
\* a file whose path leaves the install directory
ManifestUp == ManifestOf(<<FileOf("fB", PathBUp, "HB", <<"hB0">>, 1)>>, "files", 1)
\* archive mode: one zip below archive_dir
ManifestZip ==
    ManifestOf(<<FileOf("fB", PathBZip, "HB", <<"hB0">>, 1)>>, "archive_chunks", 1)
\* one chunk of 8 GiB: required / 20 exceeds STORAGE_SAFETY_MARGIN_BYTES
ManifestBig == ManifestOf(<<FileOf("fB", PathB, "HB", <<"hB0">>, 8192)>>, "files", 8192)
\* one chunk of 32 GiB: required / 20 exceeds MAX_STORAGE_SAFETY_MARGIN_BYTES
ManifestHuge == ManifestOf(<<FileOf("fB", PathB, "HB", <<"hB0">>, 32768)>>, "files", 32768)

Scenario(m, installed, cached) == [m |-> m, installed |-> installed, cached |-> cached]

Scenarios ==
    { Scenario(ManifestSafe, FALSE, FALSE), Scenario(ManifestSafe, FALSE, TRUE),
      Scenario(ManifestSplit, FALSE, FALSE),
      Scenario(ManifestUpdate, TRUE, FALSE), Scenario(ManifestUp, FALSE, FALSE),
      Scenario(ManifestZip, FALSE, FALSE),
      Scenario(ManifestBig, FALSE, FALSE), Scenario(ManifestHuge, FALSE, FALSE) }

InitialDisk(installed) ==
    [p \in AllPaths |->
        IF ~installed THEN Absent
        ELSE IF p = MANIFEST_FILE THEN ManifestOldContent
        ELSE IF p \in {PathA, PathObsolete} THEN OldContent
        ELSE Absent]

InitialDepot(cached) == [h \in Hashes |-> IF cached THEN "ok" ELSE "absent"]

IdleWorkers == [k \in ChunkKeys |-> "none"]

NoObs ==
    [ outcome |-> "none", interrupted |-> FALSE, resumed |-> FALSE,
      emptyCompleted |-> FALSE, hydrated |-> FALSE,
      diskAtStart |-> InitialDisk(FALSE), touched |-> FALSE, foreignWrite |-> FALSE,
      requested |-> FALSE, submitted |-> FALSE, events |-> 0, scanPassed |-> FALSE,
      wroteCompleted |-> FALSE, budget |-> NoBudget, budgetFailed |-> FALSE,
      cancelStanding |-> FALSE, cancelEver |-> FALSE, chunkFailed |-> FALSE,
      pauseState |-> "none", expired |-> FALSE, depotFull |-> FALSE, renamed |-> FALSE,
      manifestWritten |-> FALSE ]

SessionInit(sc) ==
        /\ manifest = sc.m
        /\ disk = InitialDisk(sc.installed)
        /\ depot = InitialDepot(sc.cached)
        /\ dbStatus = "none"
        /\ dlRow = "none"
        /\ chunkRows = {}
        /\ pc = "idle"
        /\ control = "Running"
        /\ result = NoError
        /\ plan = EmptyPlan
        /\ oldm = NoManifest
        /\ workers = IdleWorkers
        /\ chan = <<>>
        /\ chanOpen = FALSE
        /\ permits = 0
        /\ tracker = 0
        /\ lastProgress = -1
        /\ orphans = {}
        /\ starts = 0
        /\ crashes = 0
        /\ controls = 0
        /\ obs = NoObs

Registered == pc # "idle"
KeyOf(job) == <<job.file_id, job.index>>
JobByKey(k) == CHOOSE j \in Range(plan.chunks) : KeyOf(j) = k
LiveWorkers == {k \in ChunkKeys : workers[k] \notin {"none", "done"}}
\* watch receivers: control_rx of run_download and the clones of its chunk tasks
ControlReceivers == pc \notin {"idle", "epilogue"} \/ LiveWorkers # {}

(***************************************************************************)
(* start_download (registry guard, handle, spawn)                          *)
(***************************************************************************)
Start ==
    /\ ~Registered
    /\ starts < MaxStarts
    /\ starts' = starts + 1
    /\ pc' = "plan"
    /\ control' = "Running"
    /\ result' = NoError
    /\ obs' = [NoObs EXCEPT !.outcome = "running",
                            !.interrupted = obs.interrupted,
                            !.resumed = obs.interrupted,
                            !.diskAtStart = disk,
                            !.depotFull = \A h \in Hashes : depot[h] = "ok"]
    /\ UNCHANGED <<notSessVars, manifest, disk, depot, dbStatus, dlRow, chunkRows, plan, oldm, workers,
                   chan, chanOpen, permits, tracker, lastProgress, orphans, crashes, controls>>

\* free space the volume may report: just below and just at the requirement
FreeSpaceChoices(b) ==
    {x \in {b.required_bytes - b.reclaimable_bytes - 1,
            b.required_bytes - b.reclaimable_bytes} : x >= 0}

(***************************************************************************)
(* run_download up to the storage budget check                             *)
(***************************************************************************)
PlanStep ==
    /\ pc = "plan"
    /\ LET old == load_previous_manifest(disk, manifest)
           pl == build_download_plan(manifest, disk, chunkRows, old)
           b0 == evaluate_storage_budget(0, disk, depot, manifest, pl, old)
       IN \E avail \in FreeSpaceChoices(b0) :
            LET b == evaluate_storage_budget(avail, disk, depot, manifest, pl, old) IN
            /\ chunkRows' = chunkRows \cup Range(pl.precompleted_chunks)
            /\ plan' = pl
            /\ oldm' = old
            /\ IF BudgetInsufficient(b)
               THEN /\ dbStatus' = "failed"
                    /\ result' = ErrMsg("insufficient disk space", NoSnippet)
                    /\ pc' = "epilogue"
               ELSE /\ dbStatus' = "downloading"
                    /\ result' = result
                    /\ pc' = "prepare"
            /\ obs' = [obs EXCEPT !.budget = b, !.budgetFailed = BudgetInsufficient(b),
                                  !.emptyCompleted = (chunkRows = {})]
    /\ UNCHANGED <<notSessVars, manifest, disk, depot, dlRow, control, workers, chan, chanOpen, permits,
                   tracker, lastProgress, orphans, starts, crashes, controls>>

(***************************************************************************)
(* run_download: delete_files, prepare_files, hydrate_from_depot_cache,    *)
(* tracker and reporter, one spawned chunk task per remaining job          *)
(***************************************************************************)
PrepareStep ==
    /\ pc = "prepare"
    /\ LET cs == PlanChunkSize(manifest)
           d1 == delete_files(disk, plan.delete_files)
           d2 == prepare_files(d1, plan.files_to_finalize, cs)
           hy == hydrate_from_depot_cache(d2, depot, chunkRows, plan.chunks, cs)
       IN /\ disk' = hy.disk
          /\ depot' = hy.depot
          /\ chunkRows' = hy.rows
          /\ plan' = [plan EXCEPT !.chunks = hy.pending,
                                  !.preexisting_bytes = plan.preexisting_bytes + hy.restored]
          /\ tracker' = plan.preexisting_bytes + hy.restored
          /\ workers' = [k \in ChunkKeys |->
                            IF \E j \in Range(hy.pending) : KeyOf(j) = k
                            THEN "spawned" ELSE "none"]
          /\ obs' = [obs EXCEPT !.touched = (hy.disk # disk),
                                !.submitted = (hy.pending # <<>>),
                                !.hydrated = (hy.restored > 0)]
    /\ lastProgress' = -1
    /\ chan' = <<>>
    /\ chanOpen' = TRUE
    /\ permits' = EffectiveConcurrency
    /\ pc' = "recv"
    /\ UNCHANGED <<notSessVars, manifest, dbStatus, dlRow, control, result, oldm, orphans, starts, crashes, controls>>

(***************************************************************************)
(* Chunk tasks                                                             *)
(***************************************************************************)
Progress(bytes) ==
    [t |-> "Progress", key |-> <<"", 0>>, hash |-> "", size |-> 0, bytes |-> bytes,
     err |-> NoError]
Success(job, accounted) ==
    [t |-> "Success", key |-> KeyOf(job), hash |-> job.hash, size |-> job.size,
     bytes |-> accounted, err |-> NoError]
Error(err) ==
    [t |-> "Error", key |-> <<"", 0>>, hash |-> "", size |-> 0, bytes |-> 0, err |-> err]

\* tx.send: the message is dropped once the receiver is gone
Send(ch, msg) == IF chanOpen THEN Append(ch, msg) ELSE ch

\* semaphore.acquire(), then wait_for_running in the task and at the head of
\* download_chunk return Ok: the request is sent
StartFetch(k) ==
    /\ workers[k] = "spawned"
    /\ permits > 0
    /\ control = "Running"
    /\ permits' = permits - 1
    /\ workers' = [workers EXCEPT ![k] = "stream"]
    /\ obs' = [obs EXCEPT !.requested = TRUE]
    /\ UNCHANGED <<notSessVars, manifest, disk, depot, dbStatus, dlRow, chunkRows, pc, control, result,
                   plan, oldm, chan, chanOpen, tracker, lastProgress, orphans,
                   starts, crashes, controls>>

\* wait_for_running or the select loop of download_chunk sees Cancelled
SeesCancelled(k) ==
    /\ \/ workers[k] = "spawned" /\ permits > 0 /\ permits' = permits
       \/ workers[k] \in {"stream", "expired"} /\ permits' = permits + 1
    /\ control = "Cancelled"
    /\ chan' = Send(chan, Error(ErrMsg("download cancelled", NoSnippet)))
    /\ workers' = [workers EXCEPT ![k] = "done"]
    /\ UNCHANGED <<notSessVars, manifest, disk, depot, dbStatus, dlRow, chunkRows, pc, control, result,
                   plan, oldm, chanOpen, tracker, lastProgress, orphans, starts, crashes, controls,
                   obs>>

\* every URL and attempt of download_chunk failed; the text of the error lists
\* each URL with the HTTP status and a snippet of the response body
FetchFails(k) ==
    /\ workers[k] = "stream"
    /\ \E snippet \in Snippets :
         chan' = Send(chan, Error(ErrMsg("all endpoints failed", snippet)))
    /\ workers' = [workers EXCEPT ![k] = "done"]
    /\ permits' = permits + 1
    /\ obs' = [obs EXCEPT !.chunkFailed = TRUE]
    /\ UNCHANGED <<notSessVars, manifest, disk, depot, dbStatus, dlRow, chunkRows, pc, control, result,
                   plan, oldm, chanOpen, tracker, lastProgress, orphans, starts, crashes, controls>>

\* the request's timeout (set at send, covering the body) runs out while the
\* task is suspended on Paused and does not poll the stream
RequestDeadline(k) ==
    /\ workers[k] = "stream"
    /\ control = "Paused"
    /\ workers' = [workers EXCEPT ![k] = "expired"]
    /\ UNCHANGED <<notSessVars, manifest, disk, depot, dbStatus, dlRow, chunkRows, pc, control, result,
                   plan, oldm, chan, chanOpen, permits, tracker, lastProgress, orphans,
                   starts, crashes, controls, obs>>

\* resumed, the task polls the stream: `next?` returns the timeout error, which
\* leaves download_chunk without a retry
ExpiredFails(k) ==
    /\ workers[k] = "expired"
    /\ control = "Running"
    /\ chan' = Send(chan, Error(ErrMsg("network error", NoSnippet)))
    /\ workers' = [workers EXCEPT ![k] = "done"]
    /\ permits' = permits + 1
    /\ obs' = [obs EXCEPT !.expired = TRUE]
    /\ UNCHANGED <<notSessVars, manifest, disk, depot, dbStatus, dlRow, chunkRows, pc, control, result,
                   plan, oldm, chanOpen, tracker, lastProgress, orphans, starts, crashes,
                   controls>>

\* the body arrives while the control is Running, the chunk verifies, the
\* accounted bytes are sent as Progress and download_chunk returns the payload
FetchSucceeds(k) ==
    /\ workers[k] = "stream"
    /\ control = "Running"
    /\ chan' = Send(chan, Progress(JobByKey(k).size))
    /\ workers' = [workers EXCEPT ![k] = "throttle"]
    /\ UNCHANGED <<notSessVars, manifest, disk, depot, dbStatus, dlRow, chunkRows, pc, control, result,
                   plan, oldm, chanOpen, permits, tracker, lastProgress, orphans, starts,
                   crashes, controls, obs>>

\* throttle.acquire returns, write_chunk, store_chunk, Success
WriteChunk(k) ==
    /\ workers[k] = "throttle"
    /\ LET job == JobByKey(k) IN
         /\ disk' = write_chunk(disk, job, PlanChunkSize(manifest))
         /\ depot' = store_chunk(depot, job.hash)
         /\ chan' = Send(chan, Success(job, job.size))
    /\ workers' = [workers EXCEPT ![k] = "done"]
    /\ permits' = permits + 1
    /\ obs' = [obs EXCEPT !.touched = TRUE]
    /\ UNCHANGED <<notSessVars, manifest, dbStatus, dlRow, chunkRows, pc, control, result, plan, oldm,
                   chanOpen, tracker, lastProgress, orphans, starts, crashes, controls>>

\* a chunk task that outlived its session task completes its write
OrphanWrite(job) ==
    /\ job \in orphans
    /\ orphans' = orphans \ {job}
    /\ disk' = write_chunk(disk, job, PlanChunkSize(manifest))
    /\ depot' = store_chunk(depot, job.hash)
    /\ obs' = [obs EXCEPT !.foreignWrite = TRUE]
    /\ UNCHANGED <<notSessVars, manifest, dbStatus, dlRow, chunkRows, pc, control, result, plan, oldm,
                   workers, chan, chanOpen, permits, tracker, lastProgress, starts, crashes, controls>>

\* ... or ends without writing (its fetch fails, its control channel is closed)
OrphanExit(job) ==
    /\ job \in orphans
    /\ orphans' = orphans \ {job}
    /\ UNCHANGED <<notSessVars, manifest, disk, depot, dbStatus, dlRow, chunkRows, pc, control, result,
                   plan, oldm, workers, chan, chanOpen, permits, tracker, lastProgress,
                   starts, crashes, controls, obs>>

(***************************************************************************)
(* Session task: the receive loop of run_download                          *)
(***************************************************************************)
\* maybe_report writes the downloads row when progress_int changed or 500 ms
\* passed; a write with an unchanged progress_int rewrites the same status
Report(downloaded) ==
    LET progress_int == ProgressInt(downloaded, plan.total_bytes) IN
    /\ dlRow' = ReportedStatus(progress_int)
    /\ lastProgress' = progress_int
    /\ obs' = [obs EXCEPT !.wroteCompleted = @ \/ progress_int >= 100]

RecvProgress ==
    /\ pc = "recv"
    /\ chan # <<>>
    /\ Head(chan).t = "Progress"
    /\ chan' = Tail(chan)
    /\ IF Head(chan).bytes = 0
       THEN UNCHANGED <<tracker, dlRow, lastProgress, obs>>
       ELSE /\ tracker' = tracker + Head(chan).bytes
            /\ Report(tracker + Head(chan).bytes)
    /\ UNCHANGED <<notSessVars, manifest, disk, depot, dbStatus, chunkRows, pc, control, result, plan,
                   oldm, workers, chanOpen, permits, orphans, starts, crashes, controls>>

RecvSuccess ==
    /\ pc = "recv"
    /\ chan # <<>>
    /\ Head(chan).t = "Success"
    /\ chan' = Tail(chan)
    /\ LET msg == Head(chan)
           remaining == SatSub(msg.size, msg.bytes)
       IN /\ tracker' = tracker + remaining
          /\ chunkRows' = upsert_download_chunk(chunkRows,
                              [file_id |-> msg.key[1], chunk_index |-> msg.key[2],
                               hash |-> msg.hash, size |-> msg.size])
          /\ Report(tracker + remaining)
    /\ UNCHANGED <<notSessVars, manifest, disk, depot, dbStatus, pc, control, result, plan, oldm,
                   workers, chanOpen, permits, orphans, starts, crashes, controls>>

\* ChunkResult::Error: status failed, return Err(error); rx is dropped
RecvError ==
    /\ pc = "recv"
    /\ chan # <<>>
    /\ Head(chan).t = "Error"
    /\ dbStatus' = update_download_status(dbStatus, "failed")
    /\ result' = Head(chan).err
    /\ chan' = <<>>
    /\ chanOpen' = FALSE
    /\ pc' = "epilogue"
    /\ UNCHANGED <<notSessVars, manifest, disk, depot, dlRow, chunkRows, control, plan, oldm, workers,
                   permits, tracker, lastProgress, orphans, starts, crashes, controls, obs>>

\* rx.recv() returns None: every sender is dropped; finalize_files, "verifying"
FinalizeStep ==
    /\ pc = "recv"
    /\ chan = <<>>
    /\ LiveWorkers = {}
    /\ disk' = finalize_files(disk, plan.files_to_finalize)
    /\ dbStatus' = update_download_status(dbStatus, "verifying")
    /\ chanOpen' = FALSE
    /\ pc' = "scan"
    /\ obs' = [obs EXCEPT !.touched = @ \/ plan.files_to_finalize # <<>>,
                          !.renamed = plan.files_to_finalize # <<>>]
    /\ UNCHANGED <<notSessVars, manifest, depot, dlRow, chunkRows, control, result, plan, oldm, workers,
                   chan, permits, tracker, lastProgress, orphans, starts, crashes, controls>>

\* post-download scan_manifest_integrity and its verdict
ScanStep ==
    /\ pc = "scan"
    /\ IF PostScanFails(disk, manifest)
       THEN /\ dbStatus' = update_download_status(dbStatus, "failed")
            /\ result' = ErrMsg("post-download verification failed", NoSnippet)
            /\ pc' = "epilogue"
            /\ obs' = obs
       ELSE /\ dbStatus' = dbStatus
            /\ result' = result
            /\ pc' = "extract"
            /\ obs' = [obs EXCEPT !.scanPassed = TRUE]
    /\ UNCHANGED <<notSessVars, manifest, disk, depot, dlRow, chunkRows, control, plan, oldm, workers,
                   chan, chanOpen, permits, tracker, lastProgress, orphans, starts, crashes, controls>>

\* extract_archives (archive mode only), write_manifest, status completed,
\* the completed downloads row
CompleteStep ==
    /\ pc = "extract"
    /\ LET d1 == IF is_archive_mode(manifest)
                 THEN extract_archives(disk, manifest, oldm) ELSE disk
       IN disk' = write_manifest(d1)
    /\ dbStatus' = update_download_status(dbStatus, "completed")
    /\ dlRow' = "completed"
    /\ result' = NoError
    /\ pc' = "epilogue"
    /\ obs' = [obs EXCEPT !.wroteCompleted = TRUE, !.manifestWritten = TRUE,
                          !.touched = TRUE]
    /\ UNCHANGED <<notSessVars, manifest, depot, chunkRows, control, plan, oldm, workers, chan, chanOpen,
                   permits, tracker, lastProgress, orphans, starts, crashes, controls>>

\* chunk tasks are detached: those that can still reach write_chunk once the
\* session task is gone
Survivors ==
    {JobByKey(k) : k \in {x \in ChunkKeys :
        \/ workers[x] = "throttle"
        \/ workers[x] \in {"spawned", "stream"} /\ control = "Running"}}

\* the spawned task of start_download after run_download returned
Epilogue ==
    /\ pc = "epilogue"
    /\ depot' = gc_if_needed(depot, PlanChunkSize(manifest))
    /\ IF result # NoError
       THEN LET cancelled == MentionsCancelled(result)
                final_status == IF cancelled THEN "cancelled" ELSE "failed"
            IN /\ dbStatus' = update_download_status(dbStatus, final_status)
               /\ dlRow' = final_status
               /\ obs' = [obs EXCEPT !.outcome = final_status,
                                     !.events = IF cancelled THEN @ ELSE @ + 1,
                                     !.interrupted =
                                         result.text \in {"download cancelled",
                                                          "all endpoints failed"}]
       ELSE /\ UNCHANGED <<dbStatus, dlRow>>
            /\ obs' = [obs EXCEPT !.outcome = "completed", !.interrupted = FALSE]
    /\ orphans' = orphans \cup Survivors
    /\ workers' = IdleWorkers
    /\ pc' = "idle"
    \* the registry entry and the locals of run_download are dropped
    /\ control' = "Running"
    /\ plan' = EmptyPlan
    /\ oldm' = NoManifest
    /\ chan' = <<>>
    /\ chanOpen' = FALSE
    /\ permits' = 0
    /\ tracker' = 0
    /\ lastProgress' = -1
    /\ UNCHANGED <<notSessVars, manifest, disk, chunkRows, result, starts, crashes, controls>>

(***************************************************************************)
(* Control handlers                                                        *)
(***************************************************************************)
\* pause_download: set_control fails (and nothing is written) when the id is
\* not registered or no receiver of the watch channel is left
Pause ==
    /\ Registered
    /\ controls < MaxControls
    /\ controls' = controls + 1
    /\ ControlReceivers
    /\ control' = "Paused"
    /\ dbStatus' = update_download_status(dbStatus, "paused")
    /\ obs' = [obs EXCEPT !.pauseState = "paused", !.cancelStanding = FALSE]
    /\ UNCHANGED <<notSessVars, manifest, disk, depot, dlRow, chunkRows, pc, result, plan, oldm, workers,
                   chan, chanOpen, permits, tracker, lastProgress, orphans, starts, crashes>>

resume_download ==
    /\ Registered
    /\ controls < MaxControls
    /\ controls' = controls + 1
    /\ ControlReceivers
    /\ control' = "Running"
    /\ dbStatus' = update_download_status(dbStatus, "downloading")
    /\ obs' = [obs EXCEPT !.pauseState = IF @ = "paused" THEN "resumed" ELSE @,
                          !.cancelStanding = FALSE]
    /\ UNCHANGED <<notSessVars, manifest, disk, depot, dlRow, chunkRows, pc, result, plan, oldm, workers,
                   chan, chanOpen, permits, tracker, lastProgress, orphans, starts, crashes>>

\* cancel_download: the failure of set_control is only logged; the status
\* cancelled is written in every case
cancel_download ==
    /\ starts > 0
    /\ controls < MaxControls
    /\ controls' = controls + 1
    /\ control' = IF Registered /\ ControlReceivers THEN "Cancelled" ELSE control
    /\ dbStatus' = update_download_status(dbStatus, "cancelled")
    /\ obs' = IF Registered
              THEN [obs EXCEPT !.cancelStanding = TRUE, !.cancelEver = TRUE]
              ELSE obs
    /\ UNCHANGED <<notSessVars, manifest, disk, depot, dlRow, chunkRows, pc, result, plan, oldm, workers,
                   chan, chanOpen, permits, tracker, lastProgress, orphans, starts, crashes>>

\* the process exits while the session runs: tasks, channels and registry are
\* gone, the disk and the database stay
ProcessExit ==
    /\ Registered
    /\ crashes < MaxCrashes
    /\ crashes' = crashes + 1
    /\ pc' = "idle"
    /\ control' = "Running"
    /\ workers' = IdleWorkers
    /\ orphans' = {}
    /\ result' = NoError
    /\ plan' = EmptyPlan
    /\ oldm' = NoManifest
    /\ chan' = <<>>
    /\ chanOpen' = FALSE
    /\ permits' = 0
    /\ tracker' = 0
    /\ lastProgress' = -1
    /\ obs' = [NoObs EXCEPT !.outcome = "exited", !.interrupted = TRUE]
    /\ UNCHANGED <<notSessVars, manifest, disk, depot, dbStatus, dlRow, chunkRows, starts, controls>>

(***************************************************************************)
(* BandwidthThrottler                                                      *)
(***************************************************************************)
\* interval(Duration::from_secs(1)) in ticks
RESET_INTERVAL_TICKS == 10
\* sleep(Duration::from_millis(100)) in ticks
ACQUIRE_SLEEP_TICKS == 1
\* ticks of time explored
MaxTicks == 12
\* limits (bytes per second) and request sizes explored
Limits == {0, 2}
RequestSizes == {1, 3}
Callers == {"w1", "w2"}

IdleCaller == [at |-> "idle", bytes |-> 0, wake |-> 0]
EmptyLog == [i \in 1..RESET_INTERVAL_TICKS |-> 0]

ThrottleIdle ==
    /\ thrMax = 0
    /\ thrCurrent = 0
    /\ thrClock = 0
    /\ thrNextReset = 0
    /\ thrCallers = [c \in Callers |-> IdleCaller]
    /\ thrLog = EmptyLog

\* bytes released during the last second, the current tick included
ReleasedInWindow == SumSeq(thrLog)

\* a chunk task calls throttle.acquire(bytes)
AcquireCall(c) ==
    /\ thrCallers[c].at = "idle"
    /\ \E n \in RequestSizes :
         thrCallers' = [thrCallers EXCEPT ![c] = [at |-> "check", bytes |-> n, wake |-> 0]]
    /\ UNCHANGED <<notThrVars, thrMax, thrCurrent, thrClock, thrNextReset, thrLog>>

\* one iteration of the loop of acquire that returns
AcquireReturn(c) ==
    /\ thrCallers[c].at = "check"
    /\ \/ /\ thrMax = 0
          /\ thrCurrent' = thrCurrent
       \/ /\ thrMax # 0
          /\ thrCurrent + thrCallers[c].bytes <= thrMax
          /\ thrCurrent' = thrCurrent + thrCallers[c].bytes
    /\ thrLog' = IF thrMax = 0 THEN thrLog
                 ELSE [thrLog EXCEPT ![RESET_INTERVAL_TICKS] = @ + thrCallers[c].bytes]
    /\ thrCallers' = [thrCallers EXCEPT ![c] = IdleCaller]
    /\ UNCHANGED <<notThrVars, thrMax, thrClock, thrNextReset>>

\* one iteration that finds no room and sleeps
AcquireSleep(c) ==
    /\ thrCallers[c].at = "check"
    /\ thrMax # 0
    /\ thrCurrent + thrCallers[c].bytes > thrMax
    /\ thrCallers' = [thrCallers EXCEPT ![c].at = "sleep",
                                        ![c].wake = thrClock + ACQUIRE_SLEEP_TICKS]
    /\ UNCHANGED <<notThrVars, thrMax, thrCurrent, thrClock, thrNextReset, thrLog>>

AcquireWake(c) ==
    /\ thrCallers[c].at = "sleep"
    /\ thrCallers[c].wake <= thrClock
    /\ thrCallers' = [thrCallers EXCEPT ![c].at = "check"]
    /\ UNCHANGED <<notThrVars, thrMax, thrCurrent, thrClock, thrNextReset, thrLog>>

\* the task of start_reset_task: interval.tick(), counter = 0
WindowReset ==
    /\ thrNextReset <= thrClock
    /\ thrCurrent' = 0
    /\ thrNextReset' = thrNextReset + RESET_INTERVAL_TICKS
    /\ UNCHANGED <<notThrVars, thrMax, thrClock, thrCallers, thrLog>>

\* 100 ms pass; timers that are due fire before time moves on
Tick ==
    /\ thrClock < MaxTicks
    /\ thrNextReset > thrClock
    /\ \A c \in Callers : ~(thrCallers[c].at = "sleep" /\ thrCallers[c].wake <= thrClock)
    /\ thrClock' = thrClock + 1
    /\ thrLog' = Tail(thrLog) \o <<0>>
    /\ UNCHANGED <<notThrVars, thrMax, thrCurrent, thrNextReset, thrCallers>>

\* 100 ms pass with no bound on time: the clock is kept relative to the
\* start of the current second, so the timers keep their distances
TickLive ==
    /\ thrNextReset > thrClock
    /\ \A c \in Callers : ~(thrCallers[c].at = "sleep" /\ thrCallers[c].wake <= thrClock)
    /\ LET wrap == thrClock + 1 >= RESET_INTERVAL_TICKS
           back == IF wrap THEN RESET_INTERVAL_TICKS ELSE 0
       IN  /\ thrClock' = thrClock + 1 - back
           /\ thrNextReset' = thrNextReset - back
           /\ thrCallers' = [c \in Callers |->
                 IF thrCallers[c].at = "sleep"
                 THEN [thrCallers[c] EXCEPT !.wake = @ - back]
                 ELSE [thrCallers[c] EXCEPT !.wake = 0]]
    /\ thrLog' = Tail(thrLog) \o <<0>>
    /\ UNCHANGED <<notThrVars, thrMax, thrCurrent>>

(***************************************************************************)
(* DepotCache.  A hash argument is a sequence of characters; the bytes of  *)
(* a chunk are named (bA, bB, bX) and carry a length and a SHA-256 digest. *)
(***************************************************************************)
\* number of files the store_chunk calls explored may write
MaxDepotWrites == 1
\* length of a hex SHA-256 digest
SHA256_HEX_LEN == 64
\* `normalized.len() < 8` in sanitize_hash
SANITIZE_MIN_LEN == 8
\* DepotCache.max_bytes of the depot explored
DepotMaxBytes == 2

Rep(ch, n) == [i \in 1..n |-> ch]

HexLower == {"0", "1", "2", "3", "4", "5", "6", "7", "8", "9", "a", "b", "c", "d", "e", "f"}
HexUpper == {"A", "B", "C", "D", "E", "F"}

\* char::is_ascii_hexdigit
is_ascii_hexdigit(ch) == ch \in HexLower \cup HexUpper

\* char::to_ascii_lowercase on the characters used here
to_ascii_lowercase_char(ch) ==
    CASE ch = "A" -> "a" [] ch = "B" -> "b" [] ch = "C" -> "c"
      [] ch = "D" -> "d" [] ch = "E" -> "e" [] ch = "F" -> "f"
      [] ch = "G" -> "g" [] OTHER -> ch

to_ascii_lowercase(str) == [i \in 1..Len(str) |-> to_ascii_lowercase_char(str[i])]

\* str::trim
RECURSIVE trim_start(_)
trim_start(str) ==
    IF str # <<>> /\ Head(str) = " " THEN trim_start(Tail(str)) ELSE str

RECURSIVE trim_end(_)
trim_end(str) ==
    IF str # <<>> /\ str[Len(str)] = " "
    THEN trim_end(SubSeq(str, 1, Len(str) - 1))
    ELSE str

trim(str) == trim_end(trim_start(str))

\* str::eq_ignore_ascii_case
eq_ignore_ascii_case(a, b) == to_ascii_lowercase(a) = to_ascii_lowercase(b)

NoHash == [some |-> FALSE, v |-> <<>>]
SomeHash(v) == [some |-> TRUE, v |-> v]

sanitize_hash(hash) ==
    LET normalized == to_ascii_lowercase(trim(hash))
    IN  IF Len(normalized) < SANITIZE_MIN_LEN THEN NoHash
        ELSE IF \E i \in 1..Len(normalized) : ~is_ascii_hexdigit(normalized[i]) THEN NoHash
        ELSE SomeHash(normalized)

\* exactly 64 lowercase hexadecimal characters
IsCanonicalHash(text) ==
    /\ Len(text) = SHA256_HEX_LEN
    /\ \A i \in 1..Len(text) : text[i] \in HexLower

\* the hash arguments explored, by name: two digests, one of them also in
\* upper case, a short hex string and a non-hex one; HashText is the text of
\* each
HashArgs == {"a64", "b64", "A64", "a8", "g64"}

HashText(h) ==
    CASE h = "a64" -> Rep("a", SHA256_HEX_LEN)
      [] h = "b64" -> Rep("b", SHA256_HEX_LEN)
      [] h = "c64" -> Rep("c", SHA256_HEX_LEN)
      [] h = "A64" -> Rep("A", SHA256_HEX_LEN)
      [] h = "a8" -> Rep("a", SANITIZE_MIN_LEN)
      [] OTHER -> Rep("g", SHA256_HEX_LEN)

CanonicalArgs == {h \in HashArgs : IsCanonicalHash(HashText(h))}

\* the chunk bytes explored: bX is as long as bA and differs from it
Blobs == {"bA", "bB", "bX"}
BlobLen(b) == IF b = "bB" THEN 2 ELSE 1
compute_sha256_hex(b) ==
    CASE b = "bA" -> HashText("a64") [] b = "bB" -> HashText("b64") [] OTHER -> HashText("c64")

ChunkSizes == {BlobLen(b) : b \in Blobs}

\* root/<first two characters>/<normalized>.bin: the entry is fixed by its
\* stem, named here by the hash argument that has this text
PathTable ==
    [h \in HashArgs |->
        LET r == sanitize_hash(HashText(h))
        IN  IF r.some THEN SomeHash(CHOOSE st \in HashArgs : HashText(st) = r.v) ELSE NoHash]

chunk_path(h) == PathTable[h]

DepotStems == {PathTable[h].v : h \in {g \in HashArgs : PathTable[g].some}}

\* digest.eq_ignore_ascii_case(hash) for the bytes and hash arguments explored
DigestTable ==
    [b \in Blobs |-> {h \in HashArgs : eq_ignore_ascii_case(compute_sha256_hex(b), HashText(h))}]

DigestMatches(b, h) == h \in DigestTable[b]

EntryLen(files, stem) == IF files[stem] = "absent" THEN 0 ELSE BlobLen(files[stem])

RECURSIVE SumOver(_, _)
SumOver(f, set) ==
    IF set = {} THEN 0
    ELSE LET x == CHOOSE y \in set : TRUE IN f[x] + SumOver(f, set \ {x})

\* the total size of the files under the depot root
DepotTotal(files) == SumOver([st \in DepotStems |-> EntryLen(files, st)], DepotStems)

Ret(tag, data) == [tag |-> tag, data |-> data]
NoStore == [hash |-> "-", data |-> "-"]
NoCall == [op |-> "none", hash |-> "-", size |-> 0, data |-> "-",
           ret |-> Ret("-", "-"), opened |-> FALSE, pre |-> "-", post |-> "-",
           prev |-> NoStore]
NoGc == [collected |-> {}, removed |-> {}, total0 |-> 0]

DepotIdle ==
    /\ dcFiles = [st \in DepotStems |-> "absent"]
    /\ dcMtime = [st \in DepotStems |-> 0]
    /\ dcClock = 0
    /\ dcLast = NoCall
    /\ dcStored = NoStore
    /\ gcPc = "idle"
    /\ gcEntries = <<>>
    /\ gcTotal = 0
    /\ gcSeen = NoGc

\* DepotCache::has_candidate
HasCandidateAt(hash, size) ==
    LET path == chunk_path(hash)
    IN  IF ~path.some
        THEN [ret |-> Ret("false", "-"), opened |-> FALSE, pre |-> "-"]
        ELSE [ret |-> Ret(IF dcFiles[path.v] # "absent" /\ BlobLen(dcFiles[path.v]) = size
                          THEN "true" ELSE "false", "-"),
              opened |-> TRUE, pre |-> dcFiles[path.v]]

DepotHas(hash, size) ==
    /\ LET r == HasCandidateAt(hash, size)
       IN  dcLast' = [op |-> "has", hash |-> hash, size |-> size, data |-> "-",
                      ret |-> r.ret, opened |-> r.opened, pre |-> r.pre, post |-> r.pre,
                      prev |-> NoStore]
    /\ dcStored' = NoStore
    /\ UNCHANGED <<notDcVars, dcFiles, dcMtime, dcClock, gcPc, gcEntries, gcTotal>>
    /\ gcSeen' = IF gcPc = "idle" THEN NoGc ELSE gcSeen

\* DepotCache::load_valid_chunk: the value returned and the entry left behind
load_valid_chunk(hash, size) ==
    LET path == chunk_path(hash)
    IN  IF ~path.some
        THEN [ret |-> Ret("None", "-"), opened |-> FALSE, pre |-> "-", post |-> "-"]
        ELSE LET entry == dcFiles[path.v]
             IN  IF entry = "absent" \/ BlobLen(entry) # size
                 THEN [ret |-> Ret("None", "-"), opened |-> TRUE, pre |-> entry, post |-> entry]
                 ELSE IF ~DigestMatches(entry, hash)
                 THEN [ret |-> Ret("None", "-"), opened |-> TRUE, pre |-> entry,
                       post |-> "absent"]
                 ELSE [ret |-> Ret("Some", entry), opened |-> TRUE, pre |-> entry,
                       post |-> entry]

DepotLoad(hash, size) ==
    /\ LET r == load_valid_chunk(hash, size)
           path == chunk_path(hash)
       IN  /\ dcLast' = [op |-> "load", hash |-> hash, size |-> size, data |-> "-",
                         ret |-> r.ret, opened |-> r.opened, pre |-> r.pre, post |-> r.post,
                         prev |-> dcStored]
           /\ dcFiles' = IF path.some THEN [dcFiles EXCEPT ![path.v] = r.post] ELSE dcFiles
    /\ dcStored' = NoStore
    /\ UNCHANGED <<notDcVars, dcMtime, dcClock, gcPc, gcEntries, gcTotal>>
    /\ gcSeen' = IF gcPc = "idle" THEN NoGc ELSE gcSeen

\* DepotCache::store_chunk: whether it writes the temporary file and renames it
StoreWrites(hash, data) ==
    LET path == chunk_path(hash)
    IN  /\ path.some
        /\ ~(dcFiles[path.v] # "absent" /\ BlobLen(dcFiles[path.v]) = BlobLen(data))

DepotStore(hash, data) ==
    /\ StoreWrites(hash, data) => dcClock < MaxDepotWrites + 2
    /\ LET path == chunk_path(hash)
           writes == StoreWrites(hash, data)
           pre == IF path.some THEN dcFiles[path.v] ELSE "-"
       IN  /\ dcFiles' = IF writes THEN [dcFiles EXCEPT ![path.v] = data] ELSE dcFiles
           /\ dcMtime' = IF writes THEN [dcMtime EXCEPT ![path.v] = dcClock + 1] ELSE dcMtime
           /\ dcClock' = IF writes THEN dcClock + 1 ELSE dcClock
           /\ dcLast' = [op |-> "store", hash |-> hash, size |-> BlobLen(data), data |-> data,
                         ret |-> Ret("Ok", "-"), opened |-> path.some, pre |-> pre,
                         post |-> IF writes THEN data ELSE pre, prev |-> NoStore]
    /\ dcStored' = [hash |-> hash, data |-> data]
    /\ UNCHANGED <<notDcVars, gcPc, gcEntries, gcTotal>>
    /\ gcSeen' = IF gcPc = "idle" THEN NoGc ELSE gcSeen

\* DepotCache::collect_entries: (path, len, modified) of every file
collect_entries ==
    {[stem |-> st, size |-> BlobLen(dcFiles[st]), modified |-> dcMtime[st]] :
        st \in {t \in DepotStems : dcFiles[t] # "absent"}}

\* entries.sort_by_key(modified)
RECURSIVE sort_by_modified(_)
sort_by_modified(set) ==
    IF set = {} THEN <<>>
    ELSE LET first == CHOOSE e \in set : \A o \in set : e.modified <= o.modified
         IN  <<first>> \o sort_by_modified(set \ {first})

\* gc_if_needed up to the test of the total
GcCollect ==
    /\ gcPc = "idle"
    /\ LET entries == collect_entries
           total == SumSeq([i \in 1..Cardinality(entries) |-> sort_by_modified(entries)[i].size])
       IN  /\ gcTotal' = total
           /\ gcSeen' = [collected |-> entries, removed |-> {}, total0 |-> total]
           /\ IF total <= DepotMaxBytes
              THEN gcEntries' = <<>> /\ gcPc' = "return"
              ELSE gcEntries' = sort_by_modified(entries) /\ gcPc' = "sweep"
    /\ UNCHANGED <<notDcVars, dcFiles, dcMtime, dcClock, dcLast, dcStored>>

\* one pass of the loop that reaches remove_file
GcRemove ==
    /\ gcPc = "sweep"
    /\ gcEntries # <<>>
    /\ gcTotal > DepotMaxBytes
    /\ LET e == Head(gcEntries)
           ok == dcFiles[e.stem] # "absent"
       IN  /\ dcFiles' = [dcFiles EXCEPT ![e.stem] = "absent"]
           /\ gcTotal' = IF ok THEN SatSub(gcTotal, e.size) ELSE gcTotal
           /\ gcSeen' = IF ok THEN [gcSeen EXCEPT !.removed = @ \cup {e}] ELSE gcSeen
           /\ gcEntries' = Tail(gcEntries)
    /\ dcStored' = NoStore
    /\ UNCHANGED <<notDcVars, dcMtime, dcClock, dcLast, gcPc>>

\* the loop ends (break or no entry left) and gc_if_needed returns Ok
GcReturn ==
    /\ \/ gcPc = "return"
       \/ gcPc = "sweep" /\ (gcEntries = <<>> \/ gcTotal <= DepotMaxBytes)
    /\ gcPc' = "idle"
    /\ gcEntries' = <<>>
    /\ gcTotal' = 0
    /\ dcLast' = [NoCall EXCEPT !.op = "gc", !.ret = Ret("Ok", "-")]
    /\ dcStored' = NoStore
    /\ UNCHANGED <<notDcVars, dcFiles, dcMtime, dcClock, gcSeen>>

(***************************************************************************)
(* write_manifest and load_previous_manifest, with the file contents       *)
(***************************************************************************)
\* number of write_manifest calls explored
MaxManifestWrites == 2

\* serialized manifests, as the blocks tokio::fs::write hands to the file
ManifestPayloads == {<<"a1", "a2">>, <<"b1", "b2", "b3">>}

\* the payload written straight to manifest.json
ManifestTempPathDirect == MANIFEST_FILE

\* path.with_extension("tmp")
ManifestTempPath == with_extension(MANIFEST_FILE, "tmp")

ManifestPaths == {MANIFEST_FILE, ManifestTempPath}

\* load_previous_manifest: read_to_string, then serde_json::from_str, which
\* accepts a complete document only
ReadManifest(d) ==
    IF d[MANIFEST_FILE] = Absent THEN [ok |-> FALSE, value |-> <<"io error">>]
    ELSE IF d[MANIFEST_FILE] \in ManifestPayloads
    THEN [ok |-> TRUE, value |-> d[MANIFEST_FILE]]
    ELSE [ok |-> FALSE, value |-> <<"parse error">>]

Unread == [done |-> FALSE, afterCrash |-> FALSE, ok |-> FALSE, value |-> <<>>]

ManifestIdle ==
    /\ mfDisk = [p \in ManifestPaths |-> Absent]
    /\ mfPc = "idle"
    /\ mfPayload = <<>>
    /\ mfPrev = Absent
    /\ mfResult = "-"
    /\ mfRead = Unread
    /\ mfCalls = 0

\* write_manifest is called (create_dir_all finds the directory)
MfCall(payload) ==
    /\ mfPc \in {"idle", "returned", "read"}
    /\ mfCalls < MaxManifestWrites
    /\ mfCalls' = mfCalls + 1
    /\ mfPayload' = payload
    /\ mfPrev' = mfDisk[MANIFEST_FILE]
    /\ mfResult' = "-"
    /\ mfRead' = Unread
    /\ mfPc' = "create"
    /\ UNCHANGED <<notMfVars, mfDisk>>

\* tokio::fs::write: the file is created, or truncated when it exists
MfCreate ==
    /\ mfPc = "create"
    /\ mfDisk' = [mfDisk EXCEPT ![ManifestTempPath] = <<>>]
    /\ mfPc' = "write"
    /\ UNCHANGED <<notMfVars, mfPayload, mfPrev, mfResult, mfRead, mfCalls>>

\* tokio::fs::write: one more block reaches the file
MfWriteBlock ==
    /\ mfPc = "write"
    /\ Len(mfDisk[ManifestTempPath]) < Len(mfPayload)
    /\ mfDisk' = [mfDisk EXCEPT ![ManifestTempPath] =
                      Append(@, mfPayload[Len(mfDisk[ManifestTempPath]) + 1])]
    /\ UNCHANGED <<notMfVars, mfPc, mfPayload, mfPrev, mfResult, mfRead, mfCalls>>

\* tokio::fs::write or tokio::fs::rename fails and `?` returns the error
MfFails ==
    /\ mfPc \in {"create", "write"}
    /\ mfPc' = "returned"
    /\ mfResult' = "Err"
    /\ UNCHANGED <<notMfVars, mfDisk, mfPayload, mfPrev, mfRead, mfCalls>>

\* tokio::fs::rename(temp_path, path)
MfRename ==
    /\ mfPc = "write"
    /\ Len(mfDisk[ManifestTempPath]) = Len(mfPayload)
    /\ mfDisk' = [p \in ManifestPaths |->
                     IF p = MANIFEST_FILE THEN mfDisk[ManifestTempPath] ELSE Absent]
    /\ mfPc' = "renamed"
    /\ UNCHANGED <<notMfVars, mfPayload, mfPrev, mfResult, mfRead, mfCalls>>

\* Ok(())
MfReturn ==
    /\ mfPc = "renamed"
    /\ mfPc' = "returned"
    /\ mfResult' = "Ok"
    /\ UNCHANGED <<notMfVars, mfDisk, mfPayload, mfPrev, mfRead, mfCalls>>

\* the process exits while write_manifest runs
MfCrash ==
    /\ mfPc \in {"create", "write", "renamed"}
    /\ mfPc' = "crashed"
    /\ UNCHANGED <<notMfVars, mfDisk, mfPayload, mfPrev, mfResult, mfRead, mfCalls>>

\* load_previous_manifest in a later run_download
MfLoad ==
    /\ mfPc \in {"crashed", "returned"}
    /\ mfRead' = [done |-> TRUE, afterCrash |-> (mfPc = "crashed"),
                  ok |-> ReadManifest(mfDisk).ok, value |-> ReadManifest(mfDisk).value]
    /\ mfPc' = "read"
    /\ UNCHANGED <<notMfVars, mfDisk, mfPayload, mfPrev, mfResult, mfCalls>>

(***************************************************************************)
(* Peer cache server: is_allowed_remote and handle_connection.  An IPv4    *)
(* address is its four octets, an IPv6 address its eight 16-bit segments;  *)
(* a request line is the sequence of its whitespace-separated words, each  *)
(* a sequence of characters.                                               *)
(***************************************************************************)
V4(a, b, c, d) == [v |-> 4, o |-> <<a, b, c, d>>]
V6(a, h) == [v |-> 6, o |-> <<a, 0, 0, 0, 0, 0, 0, h>>]

\* Ipv4Addr::is_loopback, is_private, is_link_local
v4_is_loopback(ip) == ip.o[1] = 127
v4_is_private(ip) ==
    \/ ip.o[1] = 10
    \/ ip.o[1] = 172 /\ ip.o[2] >= 16 /\ ip.o[2] <= 31
    \/ ip.o[1] = 192 /\ ip.o[2] = 168
v4_is_link_local(ip) == ip.o[1] = 169 /\ ip.o[2] = 254

is_cgnat(ip) == ip.o[1] = 100 /\ ip.o[2] >= 64 /\ ip.o[2] <= 127

\* Ipv6Addr::is_loopback, is_unique_local (fc00::/7), is_unicast_link_local
\* (fe80::/10): the masks of the first segment, as divisions
v6_is_loopback(ip) == ip.o = <<0, 0, 0, 0, 0, 0, 0, 1>>
v6_is_unique_local(ip) == ip.o[1] \div 512 = 126
v6_is_unicast_link_local(ip) == ip.o[1] \div 64 = 1018

\* IpAddr::is_loopback
ip_is_loopback(ip) == IF ip.v = 4 THEN v4_is_loopback(ip) ELSE v6_is_loopback(ip)

is_allowed_remote(ip, mode) ==
    IF ip_is_loopback(ip) THEN TRUE
    ELSE IF ip.v = 4
    THEN IF v4_is_private(ip) \/ v4_is_link_local(ip) THEN TRUE
         ELSE IF mode = "LanVpn" /\ is_cgnat(ip) THEN TRUE
         ELSE FALSE
    ELSE IF v6_is_loopback(ip) \/ v6_is_unique_local(ip) \/ v6_is_unicast_link_local(ip)
         THEN TRUE
         ELSE mode = "LanVpn" /\ v6_is_unique_local(ip)

PeerModes == {"LanOnly", "LanVpn"}

\* source addresses explored: both sides of every range boundary
RemoteAddrs ==
    { V4(127, 0, 0, 1), V4(10, 0, 0, 1),
      V4(172, 15, 255, 255), V4(172, 16, 0, 1), V4(172, 31, 255, 255), V4(172, 32, 0, 1),
      V4(192, 168, 1, 1), V4(169, 254, 1, 1),
      V4(100, 63, 255, 255), V4(100, 64, 0, 1), V4(100, 127, 255, 255), V4(100, 128, 0, 1),
      V4(8, 8, 8, 8),
      V6(0, 1), V6(64512, 1), V6(64768, 1), V6(65023, 1), V6(65152, 1), V6(65215, 1),
      V6(65216, 1), V6(8193, 1) }

GetWord == <<"G", "E", "T">>
PostWord == <<"P", "O", "S", "T">>
HealthPath == <<"/", "h", "e", "a", "l", "t", "h">>
ChunksPrefix == <<"/", "c", "h", "u", "n", "k", "s", "/">>
OtherPath == <<"/", "x">>
QueryPart == <<"?", "x">>

\* the requests explored, by name; `eof` is a connection closed before any
\* byte was sent, `blank` an empty request line
Request(method, target, hash) == [method |-> method, target |-> target, hash |-> hash]

Requests ==
    { Request("GET", "health", "-"), Request("POST", "health", "-"),
      Request("GET", "health?", "-"), Request("GET", "other", "-"),
      Request("GET", "none", "-"), Request("blank", "none", "-"),
      Request("eof", "none", "-"), Request("POST", "chunks", "a64") }
    \cup {Request("GET", "chunks", h) : h \in HashArgs}

\* the words of the request line
RequestWords(r) ==
    LET m == IF r.method = "GET" THEN <<GetWord>>
             ELSE IF r.method = "POST" THEN <<PostWord>> ELSE <<>>
        t == CASE r.target = "health" -> <<HealthPath>>
               [] r.target = "health?" -> <<HealthPath \o QueryPart>>
               [] r.target = "other" -> <<OtherPath>>
               [] r.target = "chunks" -> <<ChunksPrefix \o HashText(r.hash)>>
               [] OTHER -> <<>>
    IN  m \o t

\* raw_path.split('?').next()
RECURSIVE before_query(_)
before_query(str) ==
    IF str = <<>> \/ Head(str) = "?" THEN <<>>
    ELSE <<Head(str)>> \o before_query(Tail(str))

\* str::strip_prefix
HasPrefix(str, prefix) ==
    Len(str) >= Len(prefix) /\ SubSeq(str, 1, Len(prefix)) = prefix
strip_prefix(str, prefix) == SubSeq(str, Len(prefix) + 1, Len(str))

is_valid_hash(value) ==
    IF Len(value) # SHA256_HEX_LEN THEN FALSE
    ELSE \A i \in 1..Len(value) : is_ascii_hexdigit(value[i])

\* chunk_path_for_hash: the depot entry with this stem, if the depot of the
\* model has one
chunk_path_for_hash(hash) ==
    IF \E st \in DepotStems : HashText(st) = hash
    THEN CHOOSE st \in DepotStems : HashText(st) = hash
    ELSE "-"

\* handle_connection from the request line to the test of chunk_path.exists():
\* the route taken and the depot entry it names
ParseRequest(r) ==
    LET words == RequestWords(r)
        method == IF Len(words) >= 1 THEN words[1] ELSE <<>>
        raw_path == IF Len(words) >= 2 THEN words[2] ELSE <<"/">>
        path == before_query(raw_path)
    IN  IF r.method = "eof" THEN [route |-> "closed", stem |-> "-"]
        ELSE IF method # GetWord THEN [route |-> "405", stem |-> "-"]
        ELSE IF path = HealthPath THEN [route |-> "health", stem |-> "-"]
        ELSE IF HasPrefix(path, ChunksPrefix)
        THEN LET hash == strip_prefix(path, ChunksPrefix)
             IN  IF ~is_valid_hash(hash) THEN [route |-> "400", stem |-> "-"]
                 ELSE [route |-> "chunk",
                       stem |-> chunk_path_for_hash(to_ascii_lowercase(hash))]
        ELSE [route |-> "404", stem |-> "-"]

RouteTable == [r \in Requests |-> ParseRequest(r)]

NoRequest == Request("-", "-", "-")
Response(ip, r, code, body, length, opened, present) ==
    [ip |-> ip, req |-> r, code |-> code, body |-> body, length |-> length,
     opened |-> opened, present |-> present]
NoResponse == Response(V4(0, 0, 0, 0), NoRequest, 0, "-", 0, FALSE, FALSE)

PeerIdle ==
    /\ peerMode = "LanOnly"
    /\ peerShare = TRUE
    /\ peerPc = "idle"
    /\ peerLast = NoResponse

\* handle_connection up to the response, or up to File::open for a chunk that
\* exists
PeerHandle(ip, r) ==
    /\ peerPc = "idle"
    /\ LET rt == RouteTable[r]
           present == rt.stem # "-" /\ dcFiles[rt.stem] # "absent"
       IN  IF ~is_allowed_remote(ip, peerMode)
           THEN /\ peerLast' = Response(ip, r, 403, "peer access denied", 0, FALSE, FALSE)
                /\ peerPc' = "idle"
           ELSE IF rt.route = "closed"
           THEN /\ peerLast' = Response(ip, r, 0, "-", 0, FALSE, FALSE)
                /\ peerPc' = "idle"
           ELSE IF rt.route = "405"
           THEN /\ peerLast' = Response(ip, r, 405, "method not allowed", 0, FALSE, FALSE)
                /\ peerPc' = "idle"
           ELSE IF rt.route = "health"
           THEN /\ peerLast' = Response(ip, r, 200, "json", 0, FALSE, FALSE)
                /\ peerPc' = "idle"
           ELSE IF rt.route = "400"
           THEN /\ peerLast' = Response(ip, r, 400, "invalid chunk hash", 0, FALSE, FALSE)
                /\ peerPc' = "idle"
           ELSE IF rt.route = "404"
           THEN /\ peerLast' = Response(ip, r, 404, "unknown endpoint", 0, FALSE, FALSE)
                /\ peerPc' = "idle"
           ELSE IF ~present
           THEN /\ peerLast' = Response(ip, r, 404, "chunk not found", 0, rt.stem # "-", FALSE)
                /\ peerPc' = "idle"
           ELSE /\ peerLast' = Response(ip, r, -1, "-", 0, TRUE, TRUE)
                /\ peerPc' = "open"
    /\ UNCHANGED <<notPeerVars, dcVars, peerMode, peerShare>>

\* File::open, metadata, write_binary_headers and the body; when the file is
\* gone by now `?` returns the error and nothing is written
PeerOpen ==
    /\ peerPc = "open"
    /\ LET stem == RouteTable[peerLast.req].stem
       IN  peerLast' =
             IF dcFiles[stem] = "absent"
             THEN [peerLast EXCEPT !.code = 0]
             ELSE [peerLast EXCEPT !.code = 200, !.body = "chunk",
                                   !.length = BlobLen(dcFiles[stem])]
    /\ peerPc' = "idle"
    /\ UNCHANGED <<notPeerVars, dcVars, peerMode, peerShare>>

(***************************************************************************)
(* Chunk fetcher: download_chunk, the closure of a chunk task (throttle,   *)
(* write_chunk, store_chunk, Success) and the receive loop of run_download. *)
(* The control signal stays Running here; pause and cancel are followed in *)
(* the session actions above.  A URL is named; the bytes a server returns  *)
(* are named by what they decode to ("good": bytes that hash to job.hash). *)
(***************************************************************************)
\* unwrap_or(6) and unwrap_or(2) of max_attempts in resolve_http_retry_policy
HTTP_CHUNK_MAX_ATTEMPTS == 6
P2P_CHUNK_MAX_ATTEMPTS == 2
\* value of an environment variable that is not set
Unset == -1

\* max_attempts of resolve_http_retry_policy (the waits and the timeout are
\* not followed); env holds LAUNCHER_HTTP_CHUNK_MAX_ATTEMPTS and
\* LAUNCHER_P2P_CHUNK_MAX_ATTEMPTS
PeerPolicyForAll(is_peer, env) ==
    Clamp(IF env.p2p = Unset THEN P2P_CHUNK_MAX_ATTEMPTS ELSE env.p2p, 1, 4)
resolve_http_retry_policy(is_peer, env) ==
    IF is_peer
    THEN Clamp(IF env.p2p = Unset THEN P2P_CHUNK_MAX_ATTEMPTS ELSE env.p2p, 1, 4)
    ELSE Clamp(IF env.http = Unset THEN HTTP_CHUNK_MAX_ATTEMPTS ELSE env.http, 1, 8)

DefaultEnv == [http |-> Unset, p2p |-> Unset]

\* URLs: two CDN URLs, a CDN URL whose path starts with /chunks/, and the
\* URL of a peer (http://<peer>/chunks/<hash>)
FxUrls == {"cdn1", "cdn2", "cdn3c", "peerA"}
UrlHostPort(url) ==
    CASE url = "cdn1" -> "cdn1:443" [] url = "cdn2" -> "cdn2:443"
      [] url = "cdn3c" -> "cdn3:443" [] OTHER -> "peera:7942"
UrlPathStartsWithChunks(url) == url \in {"cdn3c", "peerA"}

\* peer_url_fingerprint: Some("host:port") for a path below /chunks/
peer_url_fingerprint(url) ==
    IF UrlPathStartsWithChunks(url) THEN UrlHostPort(url) ELSE "none"

FxJobOf(size, compression, urls) ==
    [size |-> size, compression |-> compression, urls |-> urls]
NoJob == FxJobOf(0, "none", <<>>)
FxJobChoices ==
    { FxJobOf(2, "none", <<"cdn1", "cdn2">>), FxJobOf(2, "zstd", <<"cdn1", "cdn2">>),
      FxJobOf(2, "none", <<"peerA", "cdn1">>), FxJobOf(2, "none", <<"cdn3c", "cdn1">>) }

\* what a request may end with: a status, a transport error, an error while
\* the body is streamed, or a complete body of `wire` bytes
Answer(kind, wire, content) == [kind |-> kind, wire |-> wire, content |-> content]
Answers(job) ==
    {Answer(k, 0, "-") : k \in {"503", "429", "404", "timeout", "reset", "bodyerr"}}
    \cup (IF job.compression = "none"
          THEN {Answer("ok", job.size, "good"), Answer("ok", job.size, "bad"),
                Answer("ok", job.size + 1, "bad"), Answer("ok", 0, "bad")}
          ELSE {Answer("ok", 1, "good"), Answer("ok", job.size + 1, "good"),
                Answer("ok", 1, "bad"), Answer("ok", 1, "garbled")})

\* status.is_server_error() || 408 || 429; err.is_timeout() || err.is_connect()
Retryable(ans) == ans.kind \in {"503", "429", "timeout"}

decompress_if_needed(job, content) ==
    IF job.compression = "none" THEN TRUE ELSE content # "garbled"
VerifyAnything(content) == TRUE
verify_chunk(content) == content = "good"

FxWorkers == {"k1", "k2"}

IdleTask ==
    [pc |-> "none", url |-> 0, attempt |-> 0, req |-> <<>>, all503 |-> <<>>,
     press |-> 0, accounted |-> 0, data |-> "-", served |-> 0, ret |-> "-"]
SpawnedTask(job) ==
    [IdleTask EXCEPT !.pc = "spawned",
                     !.req = [i \in 1..Len(job.urls) |-> 0],
                     !.all503 = [i \in 1..Len(job.urls) |-> TRUE]]

FxMsg(t, from, bytes, size) == [t |-> t, from |-> from, bytes |-> bytes, size |-> size]
\* tx.send: dropped once the receiver is gone
FxSend(ch, msg) == IF fxRecv = "recv" THEN Append(ch, msg) ELSE ch

NotSeen == [credit |-> 0, pressure |-> 0, success |-> FALSE]

FetchIdle ==
    /\ fxCfg = [engine |-> "Reqwest", strict |-> FALSE, env |-> DefaultEnv, pre |-> 0]
    /\ fxJob = [w \in FxWorkers |-> NoJob]
    /\ fxW = [w \in FxWorkers |-> IdleTask]
    /\ fxBlack = {}
    /\ fxChan = <<>>
    /\ fxRecv = "idle"
    /\ fxTracker = 0
    /\ fxRows = {}
    /\ fxPart = [w \in FxWorkers |-> "zero"]
    /\ fxDepot = [w \in FxWorkers |-> "absent"]
    /\ fxSeen = [w \in FxWorkers |-> NotSeen]

\* plan.total_bytes
FxTotalBytes == fxCfg.pre + SumOver([w \in FxWorkers |-> fxJob[w].size], FxWorkers)

\* the head of `for url in urls` from index j: blacklisted peers are skipped
RECURSIVE NextUrlIndex(_, _, _)
NextUrlIndex(urls, j, black) ==
    IF j > Len(urls) THEN j
    ELSE IF peer_url_fingerprint(urls[j]) \in black
    THEN NextUrlIndex(urls, j + 1, black)
    ELSE j

\* download_chunk goes on with the URL at index j or later; when none is
\* left it returns Err("all endpoints failed") and the task sends Error
FxGoUrl(w, t, j, black, ch) ==
    LET n == NextUrlIndex(fxJob[w].urls, j, black) IN
    IF n > Len(fxJob[w].urls)
    THEN /\ fxW' = [fxW EXCEPT ![w] = [t EXCEPT !.pc = "done", !.url = n,
                                                  !.ret = "all endpoints failed"]]
         /\ fxChan' = FxSend(ch, FxMsg("Error", w, 0, 0))
    ELSE /\ fxW' = [fxW EXCEPT ![w] = [t EXCEPT !.pc = "send", !.url = n, !.attempt = 1]]
         /\ fxChan' = ch

\* the task got its permit; wait_for_running returns Ok in the closure and
\* at the head of download_chunk
FxEnter(w) ==
    /\ fxW[w].pc = "spawned"
    /\ IF fxCfg.engine = "Aria2c"
       THEN /\ fxW' = [fxW EXCEPT ![w].pc = "aria"]
            /\ fxChan' = fxChan
       ELSE FxGoUrl(w, fxW[w], 1, fxBlack, fxChan)
    /\ UNCHANGED <<notFxVars, fxCfg, fxJob, fxBlack, fxRecv, fxTracker, fxRows, fxPart,
                   fxDepot, fxSeen>>

\* download_chunk_with_aria2 returned: its bytes are decompressed and
\* verified (`?` and return Err leave download_chunk), an Err falls back to
\* the URL loop unless LAUNCHER_ARIA2C_STRICT is set
FxAria(w, out) ==
    /\ fxW[w].pc = "aria"
    /\ IF out = "err"
       THEN IF fxCfg.strict
            THEN /\ fxW' = [fxW EXCEPT ![w].pc = "done", ![w].ret = "aria2 failed"]
                 /\ fxChan' = FxSend(fxChan, FxMsg("Error", w, 0, 0))
            ELSE FxGoUrl(w, fxW[w], 1, fxBlack, fxChan)
       ELSE IF decompress_if_needed(fxJob[w], out) /\ verify_chunk(out)
       THEN /\ fxW' = [fxW EXCEPT ![w].pc = "payload", ![w].data = out,
                                  ![w].accounted = 0]
            /\ fxChan' = fxChan
       ELSE /\ fxW' = [fxW EXCEPT ![w].pc = "done",
                                  ![w].ret = IF decompress_if_needed(fxJob[w], out)
                                             THEN "chunk hash mismatch"
                                             ELSE "decompress failed"]
            /\ fxChan' = FxSend(fxChan, FxMsg("Error", w, 0, 0))
    /\ UNCHANGED <<notFxVars, fxCfg, fxJob, fxBlack, fxRecv, fxTracker, fxRows, fxPart,
                   fxDepot, fxSeen>>

\* one attempt of the URL loop: the request is sent and answered
FxRequest(w, ans) ==
    /\ fxW[w].pc = "send"
    /\ LET t0 == fxW[w]
           job == fxJob[w]
           i == t0.url
           url == job.urls[i]
           peer_key == peer_url_fingerprint(url)
           max_attempts == resolve_http_retry_policy(peer_key # "none", fxCfg.env)
           t == [t0 EXCEPT !.req[i] = @ + 1,
                           !.all503[i] = @ /\ ans.kind = "503"]
       IN  IF ans.kind = "ok"
           THEN IF decompress_if_needed(job, ans.content) /\ verify_chunk(ans.content)
                THEN LET accounted == Min(ans.wire, job.size) IN
                     /\ fxW' = [fxW EXCEPT ![w] = [t EXCEPT !.pc = "payload",
                                                            !.data = ans.content,
                                                            !.accounted = accounted,
                                                            !.served = i]]
                     /\ fxChan' = IF accounted > 0
                                  THEN FxSend(fxChan, FxMsg("Progress", w, accounted, 0))
                                  ELSE fxChan
                     /\ fxBlack' = fxBlack
                ELSE LET black == IF peer_key # "none" THEN fxBlack \cup {peer_key}
                                  ELSE fxBlack
                     IN  /\ fxBlack' = black
                         /\ FxGoUrl(w, t, i + 1, black, fxChan)
           ELSE IF ans.kind = "bodyerr"
           THEN /\ fxW' = [fxW EXCEPT ![w] = [t EXCEPT !.pc = "done", !.ret = "network error"]]
                /\ fxChan' = FxSend(fxChan, FxMsg("Error", w, 0, 0))
                /\ fxBlack' = fxBlack
           ELSE IF Retryable(ans) /\ t0.attempt < max_attempts
           THEN /\ fxW' = [fxW EXCEPT ![w] = [t EXCEPT !.attempt = @ + 1, !.press = @ + 1]]
                /\ fxChan' = FxSend(fxChan, FxMsg("NetworkPressure", w, 0, 0))
                /\ fxBlack' = fxBlack
           ELSE /\ fxBlack' = fxBlack
                /\ FxGoUrl(w, t, i + 1, fxBlack, fxChan)
    /\ UNCHANGED <<notFxVars, fxCfg, fxJob, fxRecv, fxTracker, fxRows, fxPart, fxDepot, fxSeen>>

\* Ok(payload): throttle.acquire returns, write_chunk, store_chunk (an error
\* of it is only logged), Success; an error of write_chunk is sent as Error
FxWrite(w, written, stored) ==
    /\ fxW[w].pc = "payload"
    /\ IF written
       THEN /\ fxPart' = [fxPart EXCEPT ![w] = fxW[w].data]
            /\ fxDepot' = [fxDepot EXCEPT ![w] = IF stored THEN fxW[w].data ELSE @]
            /\ fxChan' = FxSend(fxChan, FxMsg("Success", w, fxW[w].accounted, fxJob[w].size))
            /\ fxW' = [fxW EXCEPT ![w].pc = "done", ![w].ret = "Ok"]
       ELSE /\ stored = FALSE
            /\ UNCHANGED <<fxPart, fxDepot>>
            /\ fxChan' = FxSend(fxChan, FxMsg("Error", w, 0, 0))
            /\ fxW' = [fxW EXCEPT ![w].pc = "done", ![w].ret = "io error"]
    /\ UNCHANGED <<notFxVars, fxCfg, fxJob, fxBlack, fxRecv, fxTracker, fxRows, fxSeen>>

\* `let remaining = size.saturating_sub(accounted_bytes)` of the Success arm
TopUpWholeSize(size, accounted_bytes) == size
TopUp(size, accounted_bytes) == SatSub(size, accounted_bytes)

\* one turn of `while let Some(result) = rx.recv().await`
FxRecvMsg ==
    /\ fxRecv = "recv"
    /\ fxChan # <<>>
    /\ LET msg == Head(fxChan) IN
       CASE msg.t = "Progress" ->
              /\ fxTracker' = fxTracker + msg.bytes
              /\ fxSeen' = [fxSeen EXCEPT ![msg.from].credit = @ + msg.bytes]
              /\ fxChan' = Tail(fxChan)
              /\ UNCHANGED <<fxRows, fxRecv>>
         [] msg.t = "Success" ->
              LET remaining == TopUp(msg.size, msg.bytes) IN
              /\ fxTracker' = fxTracker + remaining
              /\ fxRows' = fxRows \cup {msg.from}
              /\ fxSeen' = [fxSeen EXCEPT ![msg.from].credit = @ + remaining,
                                          ![msg.from].success = TRUE]
              /\ fxChan' = Tail(fxChan)
              /\ UNCHANGED fxRecv
         [] msg.t = "NetworkPressure" ->
              /\ fxSeen' = [fxSeen EXCEPT ![msg.from].pressure = @ + 1]
              /\ fxChan' = Tail(fxChan)
              /\ UNCHANGED <<fxTracker, fxRows, fxRecv>>
         [] OTHER ->
              /\ fxRecv' = "failed"
              /\ fxChan' = <<>>
              /\ UNCHANGED <<fxTracker, fxRows, fxSeen>>
    /\ UNCHANGED <<notFxVars, fxCfg, fxJob, fxW, fxBlack, fxPart, fxDepot>>

\* rx.recv() returns None once every task has dropped its sender
FxFinalize ==
    /\ fxRecv = "recv"
    /\ fxChan = <<>>
    /\ \A w \in FxWorkers : fxW[w].pc \in {"none", "done"}
    /\ fxRecv' = "finalize"
    /\ UNCHANGED <<notFxVars, fxCfg, fxJob, fxW, fxBlack, fxChan, fxTracker, fxRows, fxPart,
                   fxDepot, fxSeen>>

(***************************************************************************)
(* Self-heal scan: run_scan_blocking, scan_with_usn_delta and the Windows  *)
(* build of ntfs_usn.  A path and a hash are sequences of characters; an   *)
(* absent Option<String> is the empty sequence.                            *)
(***************************************************************************)
\* file changes, journal events and scans explored
MaxHealOps == 4

\* path.replace('\\', "/").trim_start_matches('/')
RECURSIVE trim_start_matches_slash(_)
trim_start_matches_slash(str) ==
    IF str # <<>> /\ Head(str) = "/" THEN trim_start_matches_slash(Tail(str)) ELSE str
normalize_relative_path(path) ==
    trim_start_matches_slash([i \in 1..Len(path) |-> IF path[i] = "\\" THEN "/" ELSE path[i]])

ShaGood == <<"a", "b">>
ShaBad == <<"c", "d">>

\* manifest.files of the install: a.bin with a declared size and an
\* upper-case hash, b with neither
HealManifest ==
    << [path |-> <<"a">>, size |-> 1, hash |-> <<"A", "B">>],
       [path |-> <<"\\", "b">>, size |-> 0, hash |-> <<>>] >>
HealPaths == {normalize_relative_path(HealManifest[i].path) : i \in 1..Len(HealManifest)}
HealEntryAt(rel) ==
    HealManifest[CHOOSE i \in 1..Len(HealManifest) :
                     normalize_relative_path(HealManifest[i].path) = rel]

AbsentFile == [present |-> FALSE, size |-> 0, mtime |-> 0, sha |-> <<>>, frn |-> 0]
HealFile(size, mtime, sha, frn) ==
    [present |-> TRUE, size |-> size, mtime |-> mtime, sha |-> sha, frn |-> frn]
\* the states a file of the install is put in
HealFileStates(rel) ==
    IF rel = <<"a">>
    THEN {AbsentFile} \cup {HealFile(s, m, h, 1) : s \in {1, 2}, m \in {1, 2},
                                                   h \in {ShaGood, ShaBad}}
    ELSE {AbsentFile, HealFile(1, 1, ShaGood, 2)}

HealEntry(path, status, reason, actual_size, actual_sha256, modified_at) ==
    [path |-> path, status |-> status, reason |-> reason, actual_size |-> actual_size,
     actual_sha256 |-> actual_sha256, modified_at |-> modified_at]
NoEntry == HealEntry(<<>>, "none", "-", 0, <<>>, 0)

\* entry.hash.trim().to_ascii_lowercase(), None when empty
ExpectedHash(entry) == to_ascii_lowercase(trim(entry.hash))

scan_entry(d, entry) ==
    LET relative == normalize_relative_path(entry.path)
        f == d[relative]
        expected_hash == ExpectedHash(entry)
    IN  IF ~f.present
        THEN HealEntry(relative, "missing", "missing_file", 0, <<>>, 0)
        ELSE IF entry.size > 0 /\ f.size # entry.size
        THEN HealEntry(relative, "corrupt", "size_mismatch", f.size, <<>>, f.mtime)
        ELSE IF expected_hash # <<>> /\ expected_hash # f.sha
        THEN HealEntry(relative, "corrupt", "hash_mismatch", f.size, f.sha, f.mtime)
        ELSE HealEntry(relative, "ok", "verified", f.size, f.sha, f.mtime)

\* scan_entries_parallel over a set of relative paths
scan_entries_parallel(d, rels) == [rel \in rels |-> scan_entry(d, HealEntryAt(rel))]

NoSnapshot == [size_bytes |-> 0, modified_at |-> 0, canonical_hash |-> <<>>, status |-> "none"]

try_reuse_cached_entry(d, entry, relative, snapshot) ==
    LET f == d[relative]
        expected_hash == ExpectedHash(entry)
    IN  IF ~f.present
        THEN HealEntry(relative, "missing", "missing_file", 0, <<>>, 0)
        ELSE IF entry.size > 0 /\ f.size # entry.size
        THEN HealEntry(relative, "corrupt", "size_mismatch", f.size, <<>>, f.mtime)
        ELSE IF snapshot.status # "ok" THEN NoEntry
        ELSE IF snapshot.modified_at <= 0 \/ snapshot.modified_at # f.mtime THEN NoEntry
        ELSE IF snapshot.size_bytes > 0 /\ snapshot.size_bytes # f.size THEN NoEntry
        ELSE IF expected_hash # <<>>
                /\ (\/ snapshot.canonical_hash = <<>>
                    \/ to_ascii_lowercase(trim(snapshot.canonical_hash)) # expected_hash)
        THEN NoEntry
        ELSE HealEntry(relative, "ok", "usn_delta_cached", f.size,
                       snapshot.canonical_hash, f.mtime)

NoCheckpoint == [tag |-> "none", journal_id |-> 0, next_usn |-> 0]
GarbageCheckpoint == [tag |-> "garbage", journal_id |-> 0, next_usn |-> 0]
UsnCheckpoint(journal_id, next_usn) ==
    [tag |-> "ok", journal_id |-> journal_id, next_usn |-> next_usn]

\* the test that sends a stored checkpoint back to a full scan
StaleByJournalIdOnly(previous, journal) == previous.journal_id # journal.id
checkpoint_is_stale(previous, journal) ==
    \/ previous.journal_id # journal.id
    \/ previous.next_usn < journal.first
    \/ previous.next_usn > journal.next

\* read_changed_frns: the file reference numbers of the records from start_usn
read_changed_frns(journal, start_usn) ==
    {r.frn : r \in {x \in journal.recs : x.usn >= start_usn}}

\* collect_changed_paths_since_checkpoint; queried is FALSE when the volume
\* cannot be opened or FSCTL_QUERY_USN_JOURNAL fails
collect_changed_paths_since_checkpoint(cp, journal, queried, d) ==
    IF ~queried THEN [tag |-> "None", changed |-> {}, cp |-> cp]
    ELSE IF cp.tag = "garbage" THEN [tag |-> "Err", changed |-> {}, cp |-> cp]
    ELSE IF cp.tag = "none" \/ checkpoint_is_stale(cp, journal)
    THEN [tag |-> "None", changed |-> {}, cp |-> UsnCheckpoint(journal.id, journal.next)]
    ELSE LET changed_frns == read_changed_frns(journal, cp.next_usn) IN
         [tag |-> "Some",
          changed |-> {rel \in HealPaths \ {<<>>} :
                          ~d[rel].present \/ d[rel].frn \in changed_frns},
          cp |-> UsnCheckpoint(journal.id, journal.next)]

\* the same scan with the changed set left unread
ScanDeltaIgnoringChanges(cp, journal, queried, d, index_map) ==
    LET c == collect_changed_paths_since_checkpoint(cp, journal, queried, d)
        rels == HealPaths \ {<<>>}
        reuse(rel) == IF index_map[rel].status # "none"
                      THEN try_reuse_cached_entry(d, HealEntryAt(rel), rel, index_map[rel])
                      ELSE NoEntry
    IN  IF c.tag # "Some" THEN [tag |-> c.tag, items |-> <<>>, cp |-> c.cp]
        ELSE [tag |-> "Some",
              items |-> [rel \in rels |-> IF reuse(rel) # NoEntry THEN reuse(rel)
                                          ELSE scan_entry(d, HealEntryAt(rel))],
              cp |-> c.cp]

\* scan_with_usn_delta: entries outside the changed set are tried against the
\* file index, the rest go to scan_entries_parallel
scan_with_usn_delta(cp, journal, queried, d, index_map) ==
    LET c == collect_changed_paths_since_checkpoint(cp, journal, queried, d)
        rels == HealPaths \ {<<>>}
        reuse(rel) == IF rel \notin c.changed /\ index_map[rel].status # "none"
                      THEN try_reuse_cached_entry(d, HealEntryAt(rel), rel, index_map[rel])
                      ELSE NoEntry
    IN  IF c.tag # "Some" THEN [tag |-> c.tag, items |-> <<>>, cp |-> c.cp]
        ELSE [tag |-> "Some",
              items |-> [rel \in rels |-> IF reuse(rel) # NoEntry THEN reuse(rel)
                                          ELSE scan_entry(d, HealEntryAt(rel))],
              cp |-> c.cp]

HealSummary(files) ==
    LET count(st) == Cardinality({rel \in DOMAIN files : files[rel].status = st}) IN
    [total_files |-> Cardinality(DOMAIN files), verified_files |-> count("ok"),
     missing_files |-> count("missing"), corrupt_files |-> count("corrupt"),
     error_files |-> count("error")]

\* run_scan_blocking up to the report; use_usn is request.use_usn_delta
run_scan_blocking(use_usn, cp, journal, queried, d, index_map) ==
    LET usn == IF use_usn THEN scan_with_usn_delta(cp, journal, queried, d, index_map)
               ELSE [tag |-> "off", items |-> <<>>, cp |-> cp]
        scanned_files == IF usn.tag = "Some" /\ DOMAIN usn.items # {}
                         THEN usn.items
                         ELSE scan_entries_parallel(d, HealPaths)
    IN  [files |-> scanned_files, summary |-> HealSummary(scanned_files),
         usn_delta_used |-> usn.tag = "Some", cp |-> usn.cp]

\* persist_file_index
IndexRow(item) ==
    [size_bytes |-> item.actual_size, modified_at |-> item.modified_at,
     canonical_hash |-> item.actual_sha256, status |-> item.status]

Statuses(files) == [rel \in DOMAIN files |-> files[rel].status]

\* the entry is reported ok from the file index, the file was not read
ReusedOk(item) == item.status = "ok" /\ item.reason = "usn_delta_cached"

NoScan ==
    [scanned |-> FALSE, use_usn |-> FALSE, invalid |-> "no", usn_delta_used |-> FALSE,
     reused |-> {},
     statuses |-> <<>>, summary |-> HealSummary(<<>>),
     reference |-> <<>>, reference_summary |-> HealSummary(<<>>), stale |-> FALSE]

HealIdle ==
    /\ shDisk = [rel \in HealPaths |-> AbsentFile]
    /\ shJournal = [id |-> 1, first |-> 0, next |-> 0, recs |-> {}]
    /\ shCheckpoint = NoCheckpoint
    /\ shIndex = [rel \in HealPaths |-> NoSnapshot]
    /\ shLast = NoScan
    /\ shOps = 0

\* why the stored checkpoint cannot be used, "no" when it can or none is stored
CheckpointInvalid(cp, journal, queried) ==
    IF ~queried THEN "query"
    ELSE IF cp.tag = "garbage" THEN "unparsable"
    ELSE IF cp.tag = "ok" /\ cp.journal_id # journal.id THEN "journal_id"
    ELSE IF cp.tag = "ok" /\ (cp.next_usn < journal.first \/ cp.next_usn > journal.next)
    THEN "range"
    ELSE "no"

\* a scan request: run_scan_blocking, persist_file_index
HealScan(use_usn, queried) ==
    /\ shOps < MaxHealOps
    /\ shOps' = shOps + 1
    /\ LET r == run_scan_blocking(use_usn, shCheckpoint, shJournal, queried, shDisk, shIndex)
           ref == run_scan_blocking(use_usn, NoCheckpoint, shJournal, queried, shDisk, shIndex)
       IN  /\ shCheckpoint' = r.cp
           /\ shIndex' = [rel \in HealPaths |->
                             IF rel \in DOMAIN r.files THEN IndexRow(r.files[rel])
                             ELSE shIndex[rel]]
           /\ shLast' = [scanned |-> TRUE, use_usn |-> use_usn,
                         invalid |-> CheckpointInvalid(shCheckpoint, shJournal, queried),
                         usn_delta_used |-> r.usn_delta_used,
                         reused |-> {rel \in DOMAIN r.files : ReusedOk(r.files[rel])},
                         statuses |-> Statuses(r.files), summary |-> r.summary,
                         reference |-> Statuses(ref.files),
                         reference_summary |-> ref.summary,
                         stale |-> \E rel \in HealPaths :
                                     /\ shIndex[rel].status = "ok"
                                     /\ try_reuse_cached_entry(shDisk, HealEntryAt(rel), rel,
                                                               shIndex[rel]).status = "ok"
                                     /\ scan_entry(shDisk, HealEntryAt(rel)).status # "ok"]
    /\ UNCHANGED <<notShVars, shDisk, shJournal>>

\* a file of the install is written, replaced or deleted: the journal gets a
\* record of its file reference number
HealTouch(rel, f) ==
    /\ shOps < MaxHealOps
    /\ shOps' = shOps + 1
    /\ f # shDisk[rel]
    /\ shDisk' = [shDisk EXCEPT ![rel] = f]
    /\ shJournal' = [shJournal EXCEPT
                       !.recs = @ \cup {[usn |-> shJournal.next,
                                         frn |-> IF f.present THEN f.frn
                                                 ELSE shDisk[rel].frn]},
                       !.next = @ + 1]
    /\ UNCHANGED <<notShVars, shCheckpoint, shIndex, shLast>>

\* the journal drops its oldest records (it is a ring of bounded size)
JournalPurge ==
    /\ shOps < MaxHealOps
    /\ shOps' = shOps + 1
    /\ shJournal.first < shJournal.next
    /\ shJournal' = [shJournal EXCEPT !.first = shJournal.next, !.recs = {}]
    /\ UNCHANGED <<notShVars, shDisk, shCheckpoint, shIndex, shLast>>

\* the journal is deleted and created again: a new id, USNs from 0
JournalRecreate ==
    /\ shOps < MaxHealOps
    /\ shOps' = shOps + 1
    /\ shJournal' = [id |-> shJournal.id + 1, first |-> 0, next |-> 0, recs |-> {}]
    /\ UNCHANGED <<notShVars, shDisk, shCheckpoint, shIndex, shLast>>

\* the settings row is overwritten with text that is no UsnCheckpoint
CheckpointGarbled ==
    /\ shOps < MaxHealOps
    /\ shOps' = shOps + 1
    /\ shCheckpoint.tag = "ok"
    /\ shCheckpoint' = GarbageCheckpoint
    /\ UNCHANGED <<notShVars, shDisk, shJournal, shIndex, shLast>>

(***************************************************************************)
(* Artwork cache: get_data_url, try_lazy_migrate, release.  A file is a    *)
(* sequence of fields, each with its length in bytes; AES-256-GCM is a     *)
(* field that opens only under the key and nonce it was sealed with.       *)
(***************************************************************************)
\* calls of get_data_url and release explored
MaxArtCalls == 3

NONCE_LEN == 12
CACHE_VERSION == 2
LEGACY_VERSION == 1
MAGIC_LEN == 6
GCM_TAG_LEN == 16
DEFAULT_RAM_LRU_MAX_ENTRIES == 160

Field(kind, len, key, nonce, plain) ==
    [kind |-> kind, len |-> len, key |-> key, nonce |-> nonce, plain |-> plain]
CACHE_MAGIC == Field("OTART2", MAGIC_LEN, "-", "-", <<>>)
LEGACY_MAGIC == Field("OTART1", MAGIC_LEN, "-", "-", <<>>)
VersionByte(v) == Field("version", 1, "-", "-", <<v>>)
NonceField(n) == Field("nonce", NONCE_LEN, "-", n, <<>>)
\* image bytes: a WebP file of the given length, told apart by its name
Image(name, len) == <<Field(name, len, "-", "-", <<>>)>>

RECURSIVE ByteLen(_)
ByteLen(data) == IF data = <<>> THEN 0 ELSE Head(data).len + ByteLen(Tail(data))

\* cipher.encrypt(nonce, payload): the ciphertext with its tag
Encrypt(key_bytes, nonce, payload) ==
    <<Field("ciphertext", ByteLen(payload) + GCM_TAG_LEN, key_bytes, nonce, payload)>>
\* cipher.decrypt(nonce, ciphertext)
Decrypt(key_bytes, nonce, ciphertext) ==
    IF /\ Len(ciphertext) = 1
       /\ ciphertext[1].kind = "ciphertext"
       /\ ciphertext[1].key = key_bytes
       /\ ciphertext[1].nonce = nonce
    THEN [tag |-> "Some", payload |-> ciphertext[1].plain]
    ELSE [tag |-> "Err", payload |-> <<>>]

ServiceKey == "service-key"
ForeignKey == "foreign-key"

\* the layout both formats share: magic, version byte, nonce, ciphertext
Sealed(magic, version, key_bytes, nonce, payload) ==
    <<magic, VersionByte(version), NonceField(nonce)>> \o Encrypt(key_bytes, nonce, payload)

NoFile == [exists |-> FALSE, data |-> <<>>]
ArtFile(data) == [exists |-> TRUE, data |-> data]

\* data[0..MAGIC.len()] == MAGIC, for data longer than the header
StartsWithMagic(data, magic) == data # <<>> /\ Head(data) = magic
VersionOf(data) == IF Len(data) >= 2 /\ data[2].kind = "version" THEN data[2].plain[1] ELSE 0
NonceOf(data) == IF Len(data) >= 3 /\ data[3].kind = "nonce" THEN data[3].nonce ELSE "-"
CiphertextOf(data) == IF Len(data) >= 3 THEN SubSeq(data, 4, Len(data)) ELSE <<>>

read_v2_payload(key_bytes, v2, cache_key) ==
    LET f == v2[cache_key] IN
    IF ~f.exists THEN [tag |-> "None", payload |-> <<>>]
    ELSE IF ByteLen(f.data) <= MAGIC_LEN + 1 + NONCE_LEN THEN [tag |-> "None", payload |-> <<>>]
    ELSE IF ~StartsWithMagic(f.data, CACHE_MAGIC) THEN [tag |-> "None", payload |-> <<>>]
    ELSE IF VersionOf(f.data) # CACHE_VERSION THEN [tag |-> "None", payload |-> <<>>]
    ELSE Decrypt(key_bytes, NonceOf(f.data), CiphertextOf(f.data))

write_v2_payload(key_bytes, v2, cache_key, payload, nonce) ==
    [v2 EXCEPT ![cache_key] = ArtFile(Sealed(CACHE_MAGIC, CACHE_VERSION, key_bytes, nonce, payload))]

LegacyAsPlaintext(key_bytes, payload) == [tag |-> "Some", payload |-> payload]
decode_legacy_payload(key_bytes, payload) ==
    IF ByteLen(payload) <= MAGIC_LEN + 1 + NONCE_LEN THEN [tag |-> "Some", payload |-> payload]
    ELSE IF ~StartsWithMagic(payload, LEGACY_MAGIC) THEN [tag |-> "Some", payload |-> payload]
    ELSE IF VersionOf(payload) # LEGACY_VERSION THEN [tag |-> "None", payload |-> <<>>]
    ELSE Decrypt(key_bytes, NonceOf(payload), CiphertextOf(payload))

Max2(a, b) == IF a > b THEN a ELSE b

\* legacy_root/<game_id>/t<tier>_<dpi>.webp
LegacyPath(game_id, tier, dpi) == <<game_id, Max2(tier, 0), Max2(dpi, 1)>>

try_lazy_migrate(key_bytes, legacy, v2, game_id, tier, dpi, cache_key, nonce) ==
    LET legacy_path == LegacyPath(game_id, tier, dpi)
        removed == [legacy EXCEPT ![legacy_path] = NoFile]
        none(l) == [tag |-> "None", payload |-> <<>>, legacy |-> l, v2 |-> v2]
    IN  IF ~legacy[legacy_path].exists THEN none(legacy)
        ELSE LET legacy_payload == legacy[legacy_path].data
                 decoded == decode_legacy_payload(key_bytes, legacy_payload)
             IN  IF legacy_payload = <<>> THEN none(removed)
                 ELSE IF decoded.tag = "Err"
                 THEN [tag |-> "Err", payload |-> <<>>, legacy |-> legacy, v2 |-> v2]
                 ELSE IF decoded.tag = "None" THEN none(removed)
                 ELSE [tag |-> "Some", payload |-> decoded.payload, legacy |-> removed,
                       v2 |-> write_v2_payload(key_bytes, v2, cache_key, decoded.payload, nonce)]

\* base64 of a payload and the data URL around it
Base64(payload) == [i \in 1..Len(payload) |-> [b64 |-> payload[i]]]
Base64Decode(text) == [i \in 1..Len(text) |-> text[i].b64]
bytes_to_data_url(payload) == [prefix |-> "data:image/webp;base64,", body |-> Base64(payload)]
NoUrl == [prefix |-> "-", body |-> <<>>]
\* tests::decode_data_url
decode_data_url(url) == Base64Decode(url.body)

ArtGames == {"g"}
ArtSources == {"-", "u"}
\* "{game_id}:{tier}:{dpi}" and "{game_id}:{tier}:{dpi}:{source_fingerprint(url)}"
CacheKey(game_id, tier, dpi, source_url) == <<game_id, tier, dpi, source_url>>
\* the requests drawn: tier 7 and dpi 0 are clamped to 4 and 1
ArtTiers == {1, 7}
ArtDpis == {0, 1}
\* the cache keys and legacy paths those requests come to
ArtKeys ==
    {CacheKey(g, Clamp(t, 0, 4), Clamp(d, 1, 4), s) :
        g \in ArtGames, t \in ArtTiers, d \in ArtDpis, s \in ArtSources}
ArtLegacyPaths ==
    {LegacyPath(g, Clamp(t, 0, 4), Clamp(d, 1, 4)) :
        g \in ArtGames, t \in ArtTiers, d \in ArtDpis}

RECURSIVE Without(_, _)
Without(order, key) ==
    IF order = <<>> THEN <<>>
    ELSE IF Head(order) = key THEN Without(Tail(order), key)
    ELSE <<Head(order)>> \o Without(Tail(order), key)

\* RamLru: touch, evict_if_needed, insert, remove_prefix; the byte limit of
\* at least 4 MiB is out of reach of the payloads drawn here
RECURSIVE evict_if_needed(_)
evict_if_needed(lru) ==
    IF Cardinality({k \in ArtKeys : lru.values[k] # NoUrl}) > Max2(DEFAULT_RAM_LRU_MAX_ENTRIES, 8)
       /\ lru.order # <<>>
    THEN evict_if_needed([order |-> SubSeq(lru.order, 1, Len(lru.order) - 1),
                          values |-> [lru.values EXCEPT ![lru.order[Len(lru.order)]] = NoUrl]])
    ELSE lru
LruTouch(lru, key) == [lru EXCEPT !.order = <<key>> \o Without(lru.order, key)]
LruInsert(lru, key, value) ==
    evict_if_needed(LruTouch([lru EXCEPT !.values[key] = value], key))
RECURSIVE WithoutGame(_, _)
WithoutGame(order, game_id) ==
    IF order = <<>> THEN <<>>
    ELSE IF Head(order)[1] = game_id THEN WithoutGame(Tail(order), game_id)
    ELSE <<Head(order)>> \o WithoutGame(Tail(order), game_id)
remove_prefix(lru, game_id) ==
    [order |-> WithoutGame(lru.order, game_id),
     values |-> [k \in ArtKeys |-> IF k[1] = game_id THEN NoUrl ELSE lru.values[k]]]

EmptyLru == [order |-> <<>>, values |-> [k \in ArtKeys |-> NoUrl]]
NoMetrics == [memory_hits |-> 0, disk_hits |-> 0, misses |-> 0, migrations |-> 0,
              encrypted_writes |-> 0]
NoArtCall ==
    [op |-> "none", key |-> <<>>, ret |-> "-", url |-> NoUrl,
     legacy_before |-> NoFile, v2_before |-> NoFile, repeat |-> FALSE]

ArtIdle ==
    /\ awLegacy = [p \in ArtLegacyPaths |-> NoFile]
    /\ awV2 = [k \in ArtKeys |-> NoFile]
    /\ awLru = EmptyLru
    /\ awMetrics = NoMetrics
    /\ awLast = NoArtCall
    /\ awCalls = 0

\* the image the source URL serves after convert_to_tiered_webp
ConvertedImage == Image("downloaded", 30)

\* get_data_url(game_id, tier, dpi, sources); source is "-" for no source;
\* nonce is what OsRng gives write_v2_payload; http is the answer of the
\* source URL when it comes to a download
GetDataUrl(game_id, tier, dpi, source, nonce, http) ==
    /\ awCalls < MaxArtCalls
    /\ awCalls' = awCalls + 1
    /\ LET normalized_tier == Clamp(tier, 0, 4)
           normalized_dpi == Clamp(dpi, 1, 4)
           cache_key == CacheKey(game_id, normalized_tier, normalized_dpi, source)
           on_disk == read_v2_payload(ServiceKey, awV2, cache_key)
           mig == try_lazy_migrate(ServiceKey, awLegacy, awV2, game_id, normalized_tier,
                                   normalized_dpi, cache_key, nonce)
           last(ret, url) ==
               [op |-> "get", key |-> cache_key, ret |-> ret, url |-> url,
                legacy_before |-> awLegacy[LegacyPath(game_id, normalized_tier, normalized_dpi)],
                v2_before |-> awV2[cache_key],
                repeat |-> awLast.op = "get" /\ awLast.key = cache_key]
           bump(field) == [awMetrics EXCEPT ![field] = @ + 1]
       IN  IF awLru.values[cache_key] # NoUrl
           THEN /\ awLru' = LruTouch(awLru, cache_key)
                /\ awMetrics' = bump("memory_hits")
                /\ awLast' = last("Some", awLru.values[cache_key])
                /\ UNCHANGED <<awLegacy, awV2>>
           ELSE IF on_disk.tag = "Err"
           THEN /\ awLast' = last("Err", NoUrl)
                /\ UNCHANGED <<awLegacy, awV2, awLru, awMetrics>>
           ELSE IF on_disk.tag = "Some"
           THEN /\ awLru' = LruInsert(awLru, cache_key, bytes_to_data_url(on_disk.payload))
                /\ awMetrics' = bump("disk_hits")
                /\ awLast' = last("Some", bytes_to_data_url(on_disk.payload))
                /\ UNCHANGED <<awLegacy, awV2>>
           ELSE IF mig.tag = "Err"
           THEN /\ awLast' = last("Err", NoUrl)
                /\ UNCHANGED <<awLegacy, awV2, awLru, awMetrics>>
           ELSE IF mig.tag = "Some"
           THEN /\ awLegacy' = mig.legacy
                /\ awV2' = mig.v2
                /\ awLru' = LruInsert(awLru, cache_key, bytes_to_data_url(mig.payload))
                /\ awMetrics' = bump("migrations")
                /\ awLast' = last("Some", bytes_to_data_url(mig.payload))
           ELSE IF source = "-" \/ http = "status404"
           THEN /\ awLegacy' = mig.legacy
                /\ awMetrics' = bump("misses")
                /\ awLast' = last("None", NoUrl)
                /\ UNCHANGED <<awV2, awLru>>
           ELSE IF http \in {"network", "undecodable"}
           THEN /\ awLegacy' = mig.legacy
                /\ awLast' = last("Err", NoUrl)
                /\ UNCHANGED <<awV2, awLru, awMetrics>>
           ELSE /\ awLegacy' = mig.legacy
                /\ awV2' = write_v2_payload(ServiceKey, awV2, cache_key, ConvertedImage, nonce)
                /\ awLru' = LruInsert(awLru, cache_key, bytes_to_data_url(ConvertedImage))
                /\ awMetrics' = bump("encrypted_writes")
                /\ awLast' = last("Some", bytes_to_data_url(ConvertedImage))
    /\ UNCHANGED notAwVars

\* release(game_id)
ArtRelease(game_id) ==
    /\ awCalls < MaxArtCalls
    /\ awCalls' = awCalls + 1
    /\ awLru' = remove_prefix(awLru, game_id)
    /\ awV2' = [k \in ArtKeys |-> IF k[1] = game_id /\ k[4] = "-" THEN NoFile ELSE awV2[k]]
    /\ awLegacy' = [p \in ArtLegacyPaths |-> IF p[1] = game_id THEN NoFile ELSE awLegacy[p]]
    /\ awLast' = [NoArtCall EXCEPT !.op = "release"]
    /\ UNCHANGED <<notAwVars, awMetrics>>

(***************************************************************************)
(* The planner over byte lengths: build_download_plan's loop over the      *)
(* manifest files, for chunks shorter than chunk_size and temp files of    *)
(* any length, and write_chunk on the temp files it names.                 *)
(***************************************************************************)
\* chunk_region_exists on the metadata of the file: exists is metadata(path).is_ok()
RegionStartExists(exists, len, offset, size) == exists /\ len >= offset
RegionExists(exists, len, offset, size) == exists /\ len >= offset + size

NoMeta == [exists |-> FALSE, len |-> 0, owners |-> {}]
MetaOf(len) == [exists |-> TRUE, len |-> len, owners |-> {}]
NoRow == "-"

\* one file of the loop: the jobs and the precompleted rows it adds
plan_file(chunk_size, completed, meta, file) ==
    LET temp_path == with_extension(file.path, "part")
        done(ch) == /\ completed[<<file.file_id, ch.index>>] # NoRow
                    /\ completed[<<file.file_id, ch.index>>] = ch.hash
                    /\ RegionExists(meta[temp_path].exists, meta[temp_path].len,
                                    ch.index * chunk_size, ch.size)
        pending == SelectSeq(file.chunks, LAMBDA ch : ~done(ch))
        skipped == SelectSeq(file.chunks, LAMBDA ch : done(ch))
    IN  [chunks |-> [i \in 1..Len(pending) |->
                        [file_id |-> file.file_id, temp_path |-> temp_path,
                         index |-> pending[i].index,
                         offset |-> pending[i].index * chunk_size,
                         size |-> pending[i].size, hash |-> pending[i].hash]],
         precompleted_chunks |-> [i \in 1..Len(skipped) |->
                        [file_id |-> file.file_id, chunk_index |-> skipped[i].index,
                         hash |-> skipped[i].hash, size |-> skipped[i].size]],
         files_to_finalize |-> IF pending # <<>>
                               THEN <<[final_path |-> file.path, temp_path |-> temp_path,
                                       size |-> file.size]>>
                               ELSE <<>>]

plan_files(m, completed, meta) ==
    LET chunk_size == PlanChunkSize(m)
        per == [i \in 1..Len(m.files) |->
                   plan_file(chunk_size, completed, meta, m.files[i])]
        pre == Concat([i \in 1..Len(per) |-> per[i].precompleted_chunks])
    IN  [chunks |-> Concat([i \in 1..Len(per) |-> per[i].chunks]),
         total_bytes |-> SumSeq([i \in 1..Len(m.files) |->
                                  SumSeq([j \in 1..Len(m.files[i].chunks) |->
                                            m.files[i].chunks[j].size])]),
         preexisting_bytes |-> SumSeq([i \in 1..Len(pre) |-> pre[i].size]),
         files_to_finalize |-> Concat([i \in 1..Len(per) |-> per[i].files_to_finalize]),
         delete_files |-> PlanDeleteFiles(m, NoManifest),
         precompleted_chunks |-> pre]

PathADat == <<Normal("a", "dat")>>
PathAPart == <<Normal("a", "part")>>
PathBBin == <<Normal("b", "bin")>>
PlanPaths == {PathA, PathADat, PathAPart, PathBBin}
PlanTempPaths == {with_extension(p, "part") : p \in PlanPaths}
PlanKeys == {<<"fA", 0>>, <<"fA", 1>>, <<"fB", 0>>}

PlanIdle ==
    /\ plManifest = NoManifest
    /\ plCompleted = [k \in PlanKeys |-> NoRow]
    /\ plMeta = [p \in PlanTempPaths |-> NoMeta]
    /\ plPlan = EmptyPlan
    /\ plPc = "idle"
    /\ plWritten = {}

\* build_download_plan on the manifest, the completed map and the temp files
PlanBuild ==
    /\ plPc = "new"
    /\ plPlan' = plan_files(plManifest, plCompleted, plMeta)
    /\ plPc' = "planned"
    /\ UNCHANGED <<notPlVars, plManifest, plCompleted, plMeta, plWritten>>

\* write_chunk(job, data) for the i-th job of the plan
PlanWriteChunk(i) ==
    /\ plPc = "planned"
    /\ i \in 1..Len(plPlan.chunks)
    /\ i \notin plWritten
    /\ LET job == plPlan.chunks[i]
           m == plMeta[job.temp_path]
       IN  plMeta' = [plMeta EXCEPT ![job.temp_path] =
                         [exists |-> TRUE, len |-> Max(m.len, job.offset + job.size),
                          owners |-> m.owners \cup {job.file_id}]]
    /\ plWritten' = plWritten \cup {i}
    /\ UNCHANGED <<notPlVars, plManifest, plCompleted, plPlan, plPc>>

(***************************************************************************)
(* Writers of one download id: start_download's registry check and insert  *)
(* (two lock regions), the dispatch of run_download, the detached chunk    *)
(* tasks with write_chunk as a step that begins and ends, the receive loop *)
(* and the epilogue that removes the registry entry.  Run r1 is the one    *)
(* spawned by caller c1, r2 by caller c2; both calls name the same id.     *)
(* The semaphore has a permit for every chunk of the manifest.             *)
(***************************************************************************)
\* pause_download, resume_download and cancel_download calls explored
MaxWriterControls == 2

WrCallers == {"c1", "c2"}
WrRuns == {"r1", "r2"}
WrChunks == {"x", "y"}
RunOf(c) == IF c = "c1" THEN "r1" ELSE "r2"
WrNoTasks == [ch \in WrChunks |-> "none"]

WritersIdle ==
    /\ wrRegistry = "none"
    /\ wrCall = [c \in WrCallers |-> "returned"]
    /\ wrRun = [r \in WrRuns |-> "none"]
    /\ wrControl = [r \in WrRuns |-> "Running"]
    /\ wrTask = [r \in WrRuns |-> WrNoTasks]
    /\ wrChan = [r \in WrRuns |-> <<>>]
    /\ wrRows = {}
    /\ wrOps = 0

\* tx.send(..).await of a chunk task: lost once the receiver is dropped
WrSend(r, msg) == IF wrRun[r] = "running" THEN [wrChan EXCEPT ![r] = Append(@, msg)] ELSE wrChan

\* start_download, first lock region: registry.contains_key(download_id)
StartCheck(c) ==
    /\ wrCall[c] = "idle"
    /\ wrCall' = [wrCall EXCEPT ![c] = IF wrRegistry # "none" THEN "returned" ELSE "checked"]
    /\ UNCHANGED <<notWrVars, wrRegistry, wrRun, wrControl, wrTask, wrChan, wrRows, wrOps>>

\* start_download, second lock region and the spawn: the handle of a new
\* watch channel replaces whatever the registry holds for the id
StartInsert(c) ==
    /\ wrCall[c] = "checked"
    /\ wrCall' = [wrCall EXCEPT ![c] = "returned"]
    /\ wrRegistry' = RunOf(c)
    /\ wrControl' = [wrControl EXCEPT ![RunOf(c)] = "Running"]
    /\ wrRun' = [wrRun EXCEPT ![RunOf(c)] = "spawned"]
    /\ UNCHANGED <<notWrVars, wrTask, wrChan, wrRows, wrOps>>

\* run_download up to the dispatch loop: a task for every chunk without a
\* completion row (the .part files are preallocated, so every region exists)
RunDispatch(r) ==
    /\ wrRun[r] = "spawned"
    /\ wrRun' = [wrRun EXCEPT ![r] = "running"]
    /\ wrTask' = [wrTask EXCEPT ![r] = [ch \in WrChunks |->
                                          IF ch \in wrRows THEN "none" ELSE "spawned"]]
    /\ UNCHANGED <<notWrVars, wrRegistry, wrCall, wrControl, wrChan, wrRows, wrOps>>

\* the sender of run r's watch channel is the handle in the registry
SenderLive(r) == wrRegistry = r

\* wait_for_running of the task closure
TaskStart(r, ch) ==
    /\ wrTask[r][ch] = "spawned"
    /\ \/ /\ wrControl[r] = "Running"
          /\ wrTask' = [wrTask EXCEPT ![r][ch] = "fetch"]
          /\ wrChan' = wrChan
       \/ /\ \/ wrControl[r] = "Cancelled"
             \/ wrControl[r] = "Paused" /\ ~SenderLive(r)
          /\ wrTask' = [wrTask EXCEPT ![r][ch] = "done"]
          /\ wrChan' = WrSend(r, <<"Error", ch>>)
    /\ UNCHANGED <<notWrVars, wrRegistry, wrCall, wrRun, wrControl, wrRows, wrOps>>

\* download_chunk returns Err: every URL failed, or the control is Cancelled
TaskFetchFails(r, ch) ==
    /\ wrTask[r][ch] = "fetch"
    /\ wrTask' = [wrTask EXCEPT ![r][ch] = "done"]
    /\ wrChan' = WrSend(r, <<"Error", ch>>)
    /\ UNCHANGED <<notWrVars, wrRegistry, wrCall, wrRun, wrControl, wrRows, wrOps>>

\* download_chunk returns the verified payload, throttle.acquire returns and
\* write_chunk opens the .part file
TaskWriteBegins(r, ch) ==
    /\ wrTask[r][ch] = "fetch"
    /\ wrControl[r] = "Running"
    /\ wrTask' = [wrTask EXCEPT ![r][ch] = "write"]
    /\ UNCHANGED <<notWrVars, wrRegistry, wrCall, wrRun, wrControl, wrChan, wrRows, wrOps>>

\* write_chunk returns: Success on Ok, Error on Err
TaskWriteEnds(r, ch, ok) ==
    /\ wrTask[r][ch] = "write"
    /\ wrTask' = [wrTask EXCEPT ![r][ch] = "done"]
    /\ wrChan' = WrSend(r, <<IF ok THEN "Success" ELSE "Error", ch>>)
    /\ UNCHANGED <<notWrVars, wrRegistry, wrCall, wrRun, wrControl, wrRows, wrOps>>

\* the receive loop takes a message: Success writes the completion row,
\* Error returns from run_download, and the spawned task of start_download
\* removes the registry entry of the id
RunRecv(r) ==
    /\ wrRun[r] = "running"
    /\ wrChan[r] # <<>>
    /\ LET msg == Head(wrChan[r]) IN
       IF msg[1] = "Success"
       THEN /\ wrRows' = wrRows \cup {msg[2]}
            /\ wrChan' = [wrChan EXCEPT ![r] = Tail(@)]
            /\ UNCHANGED <<wrRun, wrRegistry>>
       ELSE /\ wrRun' = [wrRun EXCEPT ![r] = "ended"]
            /\ wrChan' = [wrChan EXCEPT ![r] = <<>>]
            /\ wrRegistry' = "none"
            /\ wrRows' = wrRows
    /\ UNCHANGED <<notWrVars, wrCall, wrControl, wrTask, wrOps>>

\* every task has dropped its sender: the closing phases run and the
\* registry entry is removed
RunCompletes(r) ==
    /\ wrRun[r] = "running"
    /\ wrChan[r] = <<>>
    /\ \A ch \in WrChunks : wrTask[r][ch] \in {"none", "done"}
    /\ wrRun' = [wrRun EXCEPT ![r] = "ended"]
    /\ wrRegistry' = "none"
    /\ UNCHANGED <<notWrVars, wrCall, wrControl, wrTask, wrChan, wrRows, wrOps>>

\* pause_download, resume_download, cancel_download: set_control on the
\* handle the registry holds
WriterControl(state) ==
    /\ wrOps < MaxWriterControls
    /\ wrOps' = wrOps + 1
    /\ wrRegistry # "none"
    /\ wrControl' = [wrControl EXCEPT ![wrRegistry] = state]
    /\ UNCHANGED <<notWrVars, wrRegistry, wrCall, wrRun, wrTask, wrChan, wrRows>>

(***************************************************************************)
(* Adaptive concurrency governor.  Time advances in ticks of one second;   *)
(* an age is capped at the threshold it is compared with.  The semaphore   *)
(* is tokio's: a released permit goes to the longest waiting acquire, and  *)
(* try_acquire succeeds only on a permit nobody holds or waits for.        *)
(***************************************************************************)
\* NetworkPressure events sent and messages in the channel
MaxPressureEvents == 3
MaxGovQueue == 2

\* Duration::from_secs(4) and Duration::from_secs(2) of maybe_relax
PRESSURE_QUIET_SECS == 4
RELAX_INTERVAL_SECS == 2

\* AdaptiveConcurrencyGovernor::new; last_pressure = None reads as an age of
\* an hour
GovernorNew(method_key, max_permits) ==
    [enabled |-> method_key \in {"auto", "max_speed", "balance"},
     min_permits |->
        Min(CASE method_key = "auto" -> Clamp(max_permits \div 3, 8, 24)
              [] method_key = "max_speed" -> Clamp(max_permits \div 2, 12, 32)
              [] method_key = "balance" -> Clamp(max_permits \div 2, 6, 16)
              [] OTHER -> max_permits,
            max_permits),
     max_permits |-> max_permits,
     reserved |-> 0,
     pressure_age |-> PRESSURE_QUIET_SECS,
     relax_age |-> 0]

current_limit(g) == SatSub(g.max_permits, g.reserved)

\* permits of the semaphore that nobody holds
Available(g, s) == g.max_permits - g.reserved - s.held

\* Semaphore::add_permits(1) on the drop of a permit
ReleasePermit(s) ==
    IF s.waiting > 0 THEN [s EXCEPT !.waiting = @ - 1] ELSE [s EXCEPT !.held = @ - 1]

\* on_network_pressure: the governor after the call
on_network_pressure(g, s) ==
    IF ~g.enabled THEN g
    ELSE IF current_limit(g) <= g.min_permits THEN [g EXCEPT !.pressure_age = 0]
    ELSE IF Available(g, s) > 0 THEN [g EXCEPT !.pressure_age = 0, !.reserved = @ + 1]
    ELSE [g EXCEPT !.pressure_age = 0]

\* maybe_relax: TRUE when it pops a reserved permit
Relaxes(g) ==
    /\ g.enabled
    /\ g.pressure_age >= PRESSURE_QUIET_SECS
    /\ g.relax_age >= RELAX_INTERVAL_SECS
    /\ g.reserved > 0

GovIdle ==
    /\ gov = GovernorNew("cdn", 0)
    /\ sem = [held |-> 0, waiting |-> 0]
    /\ gvChan = <<>>
    /\ gvSent = 0

\* `let _permit = semaphore.acquire().await` of a spawned chunk task
GovAcquire ==
    /\ sem.waiting > 0
    /\ Available(gov, sem) > 0
    /\ sem' = [sem EXCEPT !.waiting = @ - 1, !.held = @ + 1]
    /\ UNCHANGED <<notGvVars, gov, gvChan, gvSent>>

\* a chunk task inside download_chunk sends NetworkPressure or Progress
GovTaskSends(t) ==
    /\ sem.held > 0
    /\ Len(gvChan) < MaxGovQueue
    /\ t = "NetworkPressure" => gvSent < MaxPressureEvents
    /\ gvChan' = Append(gvChan, t)
    /\ gvSent' = IF t = "NetworkPressure" THEN gvSent + 1 ELSE gvSent
    /\ UNCHANGED <<notGvVars, gov, sem>>

\* a chunk task sends Success and returns, dropping its permit
GovTaskEnds ==
    /\ sem.held > 0
    /\ Len(gvChan) < MaxGovQueue
    /\ gvChan' = Append(gvChan, "Success")
    /\ sem' = ReleasePermit(sem)
    /\ UNCHANGED <<notGvVars, gov, gvSent>>

\* one turn of the receive loop: maybe_relax on Progress and Success,
\* on_network_pressure on NetworkPressure
GovRecv ==
    /\ gvChan # <<>>
    /\ gvChan' = Tail(gvChan)
    /\ IF Head(gvChan) = "NetworkPressure"
       THEN /\ gov' = on_network_pressure(gov, sem)
            /\ sem' = sem
       ELSE IF Relaxes(gov)
       THEN /\ gov' = [gov EXCEPT !.reserved = @ - 1, !.relax_age = 0]
            /\ sem' = IF sem.waiting > 0
                      THEN [sem EXCEPT !.waiting = @ - 1, !.held = @ + 1]
                      ELSE sem
       ELSE UNCHANGED <<gov, sem>>
    /\ UNCHANGED <<notGvVars, gvSent>>

\* one second passes
GovTick ==
    /\ gov.pressure_age < PRESSURE_QUIET_SECS \/ gov.relax_age < RELAX_INTERVAL_SECS
    /\ gov' = [gov EXCEPT !.pressure_age = Min(@ + 1, PRESSURE_QUIET_SECS),
                          !.relax_age = Min(@ + 1, RELAX_INTERVAL_SECS)]
    /\ UNCHANGED <<notGvVars, sem, gvChan, gvSent>>

(***************************************************************************)
(* DepotCache::store_chunk step by step.  Every caller stores the same     *)
(* verified bytes of DepotBlocks blocks under the same hash.  A file is     *)
(* named by a number; a directory entry refers to a file, and a handle     *)
(* opened on a file keeps referring to it after a rename.                  *)
(***************************************************************************)
\* length of the chunk in write calls of fs::write
DepotBlocks == 2
\* readings of the clock a caller may get from Utc::now()
MaxClock == 2

StoreCallers == {"s1", "s2"}
StoreFiles == 1..Cardinality(StoreCallers)
EntryName == <<"entry", 0>>
\* "<hash>.bin.tmp-<pid>-<nanos>": the callers are tasks of one process
TempName(nanos) == <<"tmp", nanos>>
StoreNames == {EntryName} \cup {TempName(n) : n \in 1..MaxClock}

StoreCallIdle == [pc |-> "idle", temp |-> EntryName, fd |-> 0, ret |-> "-"]

StoreIdle ==
    /\ swDir = [n \in StoreNames |-> 0]
    /\ swLen = [f \in StoreFiles |-> 0]
    /\ swW = [c \in StoreCallers |-> StoreCallIdle]
    /\ swRead = "none"

\* metadata(path): is_file() && len() == size
EntryComplete == swDir[EntryName] # 0 /\ swLen[swDir[EntryName]] = DepotBlocks

\* a file number no directory entry and no handle refers to
FreeFile ==
    CHOOSE f \in StoreFiles :
        /\ \A n \in StoreNames : swDir[n] # f
        /\ \A c \in StoreCallers : swW[c].fd # f

\* the head of store_chunk: an entry of the right length returns Ok at once;
\* otherwise the temporary name is made of the process id and the clock
StoreBegin(c, nanos) ==
    /\ swW[c].pc = "idle"
    /\ swW' = [swW EXCEPT ![c] = IF EntryComplete
                                  THEN [@ EXCEPT !.pc = "done", !.ret = "Ok"]
                                  ELSE [@ EXCEPT !.pc = "create", !.temp = TempName(nanos)]]
    /\ UNCHANGED <<notSwVars, swDir, swLen, swRead>>

\* fs::write, File::create: the name is created, or the file it names is
\* truncated
StoreCreate(c) ==
    /\ swW[c].pc = "create"
    /\ LET f == IF swDir[swW[c].temp] # 0 THEN swDir[swW[c].temp] ELSE FreeFile IN
       /\ swDir' = [swDir EXCEPT ![swW[c].temp] = f]
       /\ swLen' = [swLen EXCEPT ![f] = 0]
       /\ swW' = [swW EXCEPT ![c].pc = "write", ![c].fd = f]
    /\ UNCHANGED <<notSwVars, swRead>>

\* fs::write, write_all: one write call; the handle is closed after the last
StoreWrite(c) ==
    /\ swW[c].pc = "write"
    /\ swLen' = [swLen EXCEPT ![swW[c].fd] = Min(@ + 1, DepotBlocks)]
    /\ swW' = [swW EXCEPT ![c] = IF swLen'[swW[c].fd] = DepotBlocks
                                  THEN [@ EXCEPT !.pc = "rename", !.fd = 0]
                                  ELSE @]
    /\ UNCHANGED <<notSwVars, swDir, swRead>>

\* fs::rename(temp_path, path) and the Err arm
StoreRename(c) ==
    /\ swW[c].pc = "rename"
    /\ IF swDir[swW[c].temp] # 0
       THEN /\ swDir' = [swDir EXCEPT ![EntryName] = swDir[swW[c].temp], ![swW[c].temp] = 0]
            /\ swW' = [swW EXCEPT ![c].pc = "done", ![c].ret = "Ok"]
       ELSE /\ swDir' = swDir
            /\ swW' = [swW EXCEPT ![c].pc = "done",
                                  ![c].ret = IF swDir[EntryName] # 0 THEN "Ok"
                                             ELSE "failed to finalize depotcache chunk"]
    /\ UNCHANGED <<notSwVars, swLen, swRead>>

\* has_candidate, load_valid_chunk or the peer server reads the entry path
StoreRead ==
    /\ swRead' = IF swDir[EntryName] = 0 THEN "absent"
                 ELSE IF swLen[swDir[EntryName]] = DepotBlocks THEN "complete"
                 ELSE "partial"
    /\ swRead' # swRead
    /\ UNCHANGED <<notSwVars, swDir, swLen, swW>>

\* gc_if_needed over budget removes a file it collected, the entry or a
\* temporary file
StoreGcRemoves(n) ==
    /\ swDir[n] # 0
    /\ swDir' = [swDir EXCEPT ![n] = 0]
    /\ UNCHANGED <<notSwVars, swLen, swW, swRead>>

(***************************************************************************)
(* Background work.  The session tasks are spawned on the multi-threaded   *)
(* runtime, so the synchronous call of gc_if_needed in one task runs      *)
(* beside the other tasks.  start_reset_task is followed statement by      *)
(* statement.                                                              *)
(***************************************************************************)
BgSessions == {"d1", "d2"}
\* DownloadManager::new, start_download and set_download_limit call
\* start_reset_task
ResetCallers == {"new", "start", "limit"}

BackgroundIdle ==
    /\ bgGc = [s \in BgSessions |-> "ended"]
    /\ bgReset = [started |-> FALSE, loops |-> 0]
    /\ bgCall = [c \in ResetCallers |-> [pc |-> "idle", was |-> FALSE]]

InGc(s) == bgGc[s] \in {"collect", "remove"}

\* run_download of the session task returns; the task calls gc_if_needed
BgRunReturns(s) ==
    /\ bgGc[s] = "run"
    /\ bgGc' = [bgGc EXCEPT ![s] = "collect"]
    /\ UNCHANGED <<notBgVars, bgReset, bgCall>>

\* gc_if_needed: collect_entries and the total; within budget it returns
BgGcCollect(s, over) ==
    /\ bgGc[s] = "collect"
    /\ bgGc' = [bgGc EXCEPT ![s] = IF over THEN "remove" ELSE "epilogue"]
    /\ UNCHANGED <<notBgVars, bgReset, bgCall>>

\* gc_if_needed: the removal loop and the return
BgGcRemove(s) ==
    /\ bgGc[s] = "remove"
    /\ bgGc' = [bgGc EXCEPT ![s] = "epilogue"]
    /\ UNCHANGED <<notBgVars, bgReset, bgCall>>

\* the rest of the task: status updates and registry.remove
BgTaskEnds(s) ==
    /\ bgGc[s] = "epilogue"
    /\ bgGc' = [bgGc EXCEPT ![s] = "ended"]
    /\ UNCHANGED <<notBgVars, bgReset, bgCall>>

\* start_reset_task: reset_started.swap(true)
ResetSwap(c) ==
    /\ bgCall[c].pc = "idle"
    /\ bgCall' = [bgCall EXCEPT ![c] = [pc |-> IF bgReset.started THEN "returned" ELSE "check",
                                         was |-> bgReset.started]]
    /\ bgReset' = [bgReset EXCEPT !.started = TRUE]
    /\ UNCHANGED <<notBgVars, bgGc>>

\* start_reset_task: without a runtime the flag is cleared, with one the
\* loop is spawned
ResetSpawn(c, in_runtime) ==
    /\ bgCall[c].pc = "check"
    /\ in_runtime \/ c = "new"
    /\ bgReset' = IF in_runtime THEN [bgReset EXCEPT !.loops = @ + 1]
                  ELSE [bgReset EXCEPT !.started = FALSE]
    /\ bgCall' = [bgCall EXCEPT ![c].pc = "returned"]
    /\ UNCHANGED <<notBgVars, bgGc>>

\* a later call of start_download or set_download_limit
ResetCallAgain(c) ==
    /\ c # "new"
    /\ bgCall[c].pc = "returned"
    /\ bgCall' = [bgCall EXCEPT ![c].pc = "idle"]
    /\ UNCHANGED <<notBgVars, bgGc, bgReset>>

(***************************************************************************)
(* scan_manifest_integrity_blocking.  A manifest file is given with the    *)
(* state the scan finds it in; scan_manifest_file is followed to its       *)
(* IntegrityFileResult (status, reason, hashed).                           *)
(***************************************************************************)
\* scanner threads spawned (resolve_integrity_scan_workers)
MaxScanWorkers == 3
\* `summary.first_failures.len() < 5`
FIRST_FAILURES_MAX == 5

ScanThreads == 1..MaxScanWorkers

\* found: "absent", "no_metadata", "wrong_size", "unreadable", "wrong_hash",
\* "good"; has_hash: sanitize_hash(&file.hash) is Some
ScanFileOf(path, found, has_hash) == [path |-> path, found |-> found, has_hash |-> has_hash]

IntegrityFileResult(path, status, reason, hashed) ==
    [path |-> path, status |-> status, reason |-> reason, hashed |-> hashed]

\* scan_manifest_file in PostDownload mode, with the reason and the hashed
\* flag of its result
ScanOutcome(f) ==
    IF f.found = "absent" THEN IntegrityFileResult(f.path, "Missing", "missing_file", FALSE)
    ELSE IF f.found = "no_metadata"
    THEN IntegrityFileResult(f.path, "Error", "metadata_failed", FALSE)
    ELSE IF f.found = "wrong_size"
    THEN IntegrityFileResult(f.path, "Corrupt", "size_mismatch", FALSE)
    ELSE IF ~f.has_hash THEN IntegrityFileResult(f.path, "Ok", "size_verified", FALSE)
    ELSE IF f.found = "unreadable"
    THEN IntegrityFileResult(f.path, "Error", "hash_read_failed", TRUE)
    ELSE IF f.found = "wrong_hash"
    THEN IntegrityFileResult(f.path, "Corrupt", "hash_mismatch", TRUE)
    ELSE IntegrityFileResult(f.path, "Ok", "hash_verified", TRUE)

\* index_ref.fetch_add(1, Ordering::SeqCst): the value returned and the
\* value left
FetchWithoutAdd(next) == [index |-> next, next |-> next]
fetch_add(next) == [index |-> next, next |-> next + 1]

EmptySummary ==
    [total_files |-> 0, verified_files |-> 0, missing_files |-> 0, corrupt_files |-> 0,
     error_files |-> 0, hashed_files |-> 0, first_failures |-> <<>>]
NoSummary == [EmptySummary EXCEPT !.total_files = -1]

\* the loop `for item in scanned` of scan_manifest_integrity_blocking
RECURSIVE Summarize(_, _)
Summarize(summary, scanned) ==
    IF scanned = <<>> THEN summary
    ELSE LET item == Head(scanned)
             h == IF item.hashed THEN [summary EXCEPT !.hashed_files = @ + 1] ELSE summary
             failed == IF Len(h.first_failures) < FIRST_FAILURES_MAX
                       THEN [h EXCEPT !.first_failures = Append(@, <<item.path, item.reason>>)]
                       ELSE h
         IN  Summarize(CASE item.status = "Ok" -> [h EXCEPT !.verified_files = @ + 1]
                         [] item.status = "Missing" -> [failed EXCEPT !.missing_files = @ + 1]
                         [] item.status = "Corrupt" -> [failed EXCEPT !.corrupt_files = @ + 1]
                         [] OTHER -> [failed EXCEPT !.error_files = @ + 1],
                       Tail(scanned))

ScanThreadIdle == [pc |-> "none", index |-> 0]

ScanIdle ==
    /\ scFiles = <<>>
    /\ scNext = 0
    /\ scW = [t \in ScanThreads |-> ScanThreadIdle]
    /\ scResults = <<>>
    /\ scSummary = NoSummary

\* the head of a thread's loop: fetch_add and the test against files.len()
ScanFetch(t) ==
    /\ scW[t].pc = "fetch"
    /\ LET r == fetch_add(scNext) IN
       /\ scNext' = r.next
       /\ scW' = [scW EXCEPT ![t] = IF r.index >= Len(scFiles)
                                     THEN [pc |-> "exit", index |-> r.index]
                                     ELSE [pc |-> "scan", index |-> r.index]]
    /\ UNCHANGED <<notScVars, scFiles, scResults, scSummary>>

\* scan_manifest_file on files[index], then the push under the mutex
ScanPush(t) ==
    /\ scW[t].pc = "scan"
    /\ scResults' = Append(scResults, ScanOutcome(scFiles[scW[t].index + 1]))
    /\ scW' = [scW EXCEPT ![t].pc = "fetch"]
    /\ UNCHANGED <<notScVars, scFiles, scNext, scSummary>>

\* every thread is joined; the summary is built from the results
ScanJoin ==
    /\ scSummary = NoSummary
    /\ \A t \in ScanThreads : scW[t].pc \in {"none", "exit"}
    /\ \E t \in ScanThreads : scW[t].pc = "exit"
    /\ scSummary' = Summarize([EmptySummary EXCEPT !.total_files = Len(scResults)], scResults)
    /\ UNCHANGED <<notScVars, scFiles, scNext, scW, scResults>>

(***************************************************************************)
(* Specifications                                                          *)
(***************************************************************************)
Init ==
    /\ \E sc \in Scenarios : SessionInit(sc)
    /\ ScanIdle
    /\ BackgroundIdle
    /\ StoreIdle
    /\ GovIdle
    /\ WritersIdle
    /\ PlanIdle
    /\ ArtIdle
    /\ HealIdle
    /\ FetchIdle
    /\ ThrottleIdle
    /\ DepotIdle
    /\ ManifestIdle
    /\ PeerIdle

Next ==
    \/ Start
    \/ PlanStep
    \/ PrepareStep
    \/ \E k \in ChunkKeys : StartFetch(k)
    \/ \E k \in ChunkKeys : SeesCancelled(k)
    \/ \E k \in ChunkKeys : FetchFails(k)
    \/ \E k \in ChunkKeys : RequestDeadline(k)
    \/ \E k \in ChunkKeys : ExpiredFails(k)
    \/ \E k \in ChunkKeys : FetchSucceeds(k)
    \/ \E k \in ChunkKeys : WriteChunk(k)
    \/ \E job \in orphans : OrphanWrite(job)
    \/ \E job \in orphans : OrphanExit(job)
    \/ RecvProgress
    \/ RecvSuccess
    \/ RecvError
    \/ FinalizeStep
    \/ ScanStep
    \/ CompleteStep
    \/ Epilogue
    \/ Pause
    \/ resume_download
    \/ cancel_download
    \/ ProcessExit

Spec == Init /\ [][Next]_vars

\* the throttler on its own: a limit set before the callers start
ThrottleInit ==
    /\ SessionInit(Scenario(ManifestSafe, FALSE, FALSE))
    /\ ScanIdle
    /\ BackgroundIdle
    /\ StoreIdle
    /\ GovIdle
    /\ WritersIdle
    /\ PlanIdle
    /\ ArtIdle
    /\ HealIdle
    /\ FetchIdle
    /\ thrMax \in Limits
    /\ thrCurrent = 0
    /\ thrClock = 0
    /\ thrNextReset = 0
    /\ thrCallers = [c \in Callers |-> IdleCaller]
    /\ thrLog = EmptyLog
    /\ DepotIdle
    /\ ManifestIdle
    /\ PeerIdle

ThrottleNext ==
    \/ \E c \in Callers : AcquireCall(c)
    \/ \E c \in Callers : AcquireReturn(c)
    \/ \E c \in Callers : AcquireSleep(c)
    \/ \E c \in Callers : AcquireWake(c)
    \/ WindowReset
    \/ Tick

SpecThrottle == ThrottleInit /\ [][ThrottleNext]_vars

\* the throttler with time running forever: the reset task and the sleeping
\* callers are tokio tasks and timers, which the runtime always runs in the end
LiveCallers == {"w1"}

ThrottleLiveNext ==
    \/ \E c \in LiveCallers : AcquireCall(c)
    \/ \E c \in LiveCallers : AcquireReturn(c)
    \/ \E c \in LiveCallers : AcquireSleep(c)
    \/ \E c \in LiveCallers : AcquireWake(c)
    \/ WindowReset
    \/ TickLive

SpecThrottleLive ==
    /\ ThrottleInit
    /\ [][ThrottleLiveNext]_vars
    /\ WF_vars(WindowReset)
    /\ WF_vars(TickLive)
    /\ \A c \in LiveCallers :
          /\ SF_vars(AcquireReturn(c))
          /\ WF_vars(AcquireSleep(c))
          /\ WF_vars(AcquireWake(c))

\* the depot cache on its own: chunk tasks, hydration and the budget estimate
\* call has, load and store while one gc_if_needed runs; the depot starts with
\* any of the explored files at the entries a64 and b64
DepotInit ==
    /\ SessionInit(Scenario(ManifestSafe, FALSE, FALSE))
    /\ ScanIdle
    /\ BackgroundIdle
    /\ StoreIdle
    /\ GovIdle
    /\ WritersIdle
    /\ PlanIdle
    /\ ArtIdle
    /\ HealIdle
    /\ FetchIdle
    /\ ThrottleIdle
    /\ ManifestIdle
    /\ PeerIdle
    /\ \E a \in {"absent", "bA", "bX", "bB"}, b \in {"absent", "bB"} :
         /\ dcFiles = [st \in DepotStems |->
                          IF st = "a64" THEN a ELSE IF st = "b64" THEN b ELSE "absent"]
         /\ dcMtime = [st \in DepotStems |->
                          IF st = "a64" /\ a # "absent" THEN 1
                          ELSE IF st = "b64" /\ b # "absent" THEN 2 ELSE 0]
    /\ dcClock = 2
    /\ dcLast = NoCall
    /\ dcStored = NoStore
    /\ gcPc = "idle"
    /\ gcEntries = <<>>
    /\ gcTotal = 0
    /\ gcSeen = NoGc

DepotNext ==
    \/ \E h \in HashArgs, n \in ChunkSizes : DepotHas(h, n)
    \/ \E h \in HashArgs, n \in ChunkSizes : DepotLoad(h, n)
    \/ \E h \in HashArgs, b \in Blobs : DepotStore(h, b)
    \/ GcCollect
    \/ GcRemove
    \/ GcReturn

SpecDepot == DepotInit /\ [][DepotNext]_vars

\* write_manifest on its own, with or without a manifest.json of a previous
\* install
ManifestInit ==
    /\ SessionInit(Scenario(ManifestSafe, FALSE, FALSE))
    /\ ScanIdle
    /\ BackgroundIdle
    /\ StoreIdle
    /\ GovIdle
    /\ WritersIdle
    /\ PlanIdle
    /\ ArtIdle
    /\ HealIdle
    /\ FetchIdle
    /\ ThrottleIdle
    /\ DepotIdle
    /\ PeerIdle
    /\ \E prev \in ManifestPayloads \cup {Absent} :
         mfDisk = [p \in ManifestPaths |-> IF p = MANIFEST_FILE THEN prev ELSE Absent]
    /\ mfPc = "idle"
    /\ mfPayload = <<>>
    /\ mfPrev = Absent
    /\ mfResult = "-"
    /\ mfRead = Unread
    /\ mfCalls = 0

ManifestNext ==
    \/ \E payload \in ManifestPayloads : MfCall(payload)
    \/ MfCreate
    \/ MfWriteBlock
    \/ MfFails
    \/ MfRename
    \/ MfReturn
    \/ MfCrash
    \/ MfLoad

SpecManifest == ManifestInit /\ [][ManifestNext]_vars

\* the peer server in either mode, sharing switched on or off
\* (OTOSHI_P2P_SHARE_ENABLED), beside a depot whose entry a64 is absent,
\* valid or corrupt and which load_valid_chunk and store_chunk change
PeerInit ==
    /\ SessionInit(Scenario(ManifestSafe, FALSE, FALSE))
    /\ ScanIdle
    /\ BackgroundIdle
    /\ StoreIdle
    /\ GovIdle
    /\ WritersIdle
    /\ PlanIdle
    /\ ArtIdle
    /\ HealIdle
    /\ FetchIdle
    /\ ThrottleIdle
    /\ ManifestIdle
    /\ peerMode \in PeerModes
    /\ peerShare \in BOOLEAN
    /\ peerPc = "idle"
    /\ peerLast = NoResponse
    /\ \E a \in {"absent", "bA", "bX"} :
         dcFiles = [st \in DepotStems |-> IF st = "a64" THEN a ELSE "absent"]
    /\ dcMtime = [st \in DepotStems |-> 0]
    /\ dcClock = 2
    /\ dcLast = NoCall
    /\ dcStored = NoStore
    /\ gcPc = "idle"
    /\ gcEntries = <<>>
    /\ gcTotal = 0
    /\ gcSeen = NoGc

PeerNext ==
    \/ \E ip \in RemoteAddrs, r \in Requests : PeerHandle(ip, r)
    \/ PeerOpen
    \/ DepotLoad("a64", 1)
    \/ DepotStore("a64", "bA")

SpecPeer == PeerInit /\ [][PeerNext]_vars

\* one session fetching one chunk: engine, strict mode, retry environment,
\* preexisting bytes and the job are drawn
FetchEnvs == {DefaultEnv, [http |-> 1, p2p |-> 1]}
\* engine and LAUNCHER_ARIA2C_STRICT
FetchModes == {<<"Reqwest", FALSE>>, <<"Aria2c", FALSE>>, <<"Aria2c", TRUE>>}

FetchInit ==
    /\ SessionInit(Scenario(ManifestSafe, FALSE, FALSE))
    /\ ScanIdle
    /\ BackgroundIdle
    /\ StoreIdle
    /\ GovIdle
    /\ WritersIdle
    /\ PlanIdle
    /\ ArtIdle
    /\ HealIdle
    /\ ThrottleIdle
    /\ DepotIdle
    /\ ManifestIdle
    /\ PeerIdle
    /\ \E mode \in FetchModes, env \in FetchEnvs, pre \in {0, 1} :
         fxCfg = [engine |-> mode[1], strict |-> mode[2], env |-> env, pre |-> pre]
    /\ \E job \in FxJobChoices :
         /\ fxJob = [w \in FxWorkers |-> IF w = "k1" THEN job ELSE NoJob]
         /\ fxW = [w \in FxWorkers |-> IF w = "k1" THEN SpawnedTask(job) ELSE IdleTask]
    /\ fxBlack = {}
    /\ fxChan = <<>>
    /\ fxRecv = "recv"
    /\ fxTracker = fxCfg.pre
    /\ fxRows = {}
    /\ fxPart = [w \in FxWorkers |-> "zero"]
    /\ fxDepot = [w \in FxWorkers |-> "absent"]
    /\ fxSeen = [w \in FxWorkers |-> NotSeen]

FetchNext ==
    \/ \E w \in FxWorkers : FxEnter(w)
    \/ \E w \in FxWorkers, out \in {"good", "bad", "garbled", "err"} : FxAria(w, out)
    \/ \E w \in FxWorkers : \E ans \in Answers(fxJob[w]) : FxRequest(w, ans)
    \/ \E w \in FxWorkers, written \in BOOLEAN, stored \in BOOLEAN : FxWrite(w, written, stored)
    \/ FxRecvMsg
    \/ FxFinalize

SpecFetch == FetchInit /\ [][FetchNext]_vars

\* an install whose files are in any of their states, a fresh journal, no
\* checkpoint and an empty file index
HealInit ==
    /\ SessionInit(Scenario(ManifestSafe, FALSE, FALSE))
    /\ ScanIdle
    /\ BackgroundIdle
    /\ StoreIdle
    /\ GovIdle
    /\ WritersIdle
    /\ PlanIdle
    /\ ArtIdle
    /\ ThrottleIdle
    /\ DepotIdle
    /\ ManifestIdle
    /\ PeerIdle
    /\ FetchIdle
    /\ shDisk \in [HealPaths -> UNION {HealFileStates(rel) : rel \in HealPaths}]
    /\ \A rel \in HealPaths : shDisk[rel] \in HealFileStates(rel)
    /\ shJournal = [id |-> 1, first |-> 0, next |-> 0, recs |-> {}]
    /\ shCheckpoint = NoCheckpoint
    /\ shIndex = [rel \in HealPaths |-> NoSnapshot]
    /\ shLast = NoScan
    /\ shOps = 0

HealNext ==
    \/ \E use_usn \in BOOLEAN, queried \in BOOLEAN : HealScan(use_usn, queried)
    \/ \E rel \in HealPaths : \E f \in HealFileStates(rel) : HealTouch(rel, f)
    \/ JournalPurge
    \/ JournalRecreate
    \/ CheckpointGarbled

SpecHeal == HealInit /\ [][HealNext]_vars

\* the files an earlier version of the launcher can have left at a legacy path
LegacyFiles ==
    {NoFile, ArtFile(<<>>), ArtFile(Image("small", 8)), ArtFile(Image("large", 40)),
     ArtFile(Sealed(LEGACY_MAGIC, LEGACY_VERSION, ServiceKey, "n0", Image("sealed", 40))),
     ArtFile(Sealed(LEGACY_MAGIC, LEGACY_VERSION, ForeignKey, "n0", Image("sealed", 40))),
     ArtFile(Sealed(LEGACY_MAGIC, CACHE_VERSION, ServiceKey, "n0", Image("sealed", 40)))}
V2Files ==
    {NoFile, ArtFile(Image("junk", 4)),
     ArtFile(Sealed(CACHE_MAGIC, CACHE_VERSION, ServiceKey, "n0", Image("cached", 40))),
     ArtFile(Sealed(CACHE_MAGIC, CACHE_VERSION, ForeignKey, "n0", Image("cached", 40)))}
ArtHttp == {"ok", "status404", "network", "undecodable"}
ArtNonces == {"n1", "n2"}

ArtInit ==
    /\ SessionInit(Scenario(ManifestSafe, FALSE, FALSE))
    /\ ScanIdle
    /\ BackgroundIdle
    /\ StoreIdle
    /\ GovIdle
    /\ WritersIdle
    /\ PlanIdle
    /\ ThrottleIdle
    /\ DepotIdle
    /\ ManifestIdle
    /\ PeerIdle
    /\ FetchIdle
    /\ HealIdle
    /\ \E l1 \in LegacyFiles, l4 \in {NoFile, ArtFile(Image("large", 40))}, c \in V2Files :
          /\ awLegacy = [p \in ArtLegacyPaths |->
                            IF p = <<"g", 1, 1>> THEN l1
                            ELSE IF p = <<"g", 4, 1>> THEN l4 ELSE NoFile]
          /\ awV2 = [k \in ArtKeys |-> IF k = <<"g", 1, 1, "-">> THEN c ELSE NoFile]
    /\ awLru = EmptyLru
    /\ awMetrics = NoMetrics
    /\ awLast = NoArtCall
    /\ awCalls = 0

ArtNext ==
    \/ \E g \in ArtGames, t \in ArtTiers, d \in ArtDpis, s \in ArtSources,
          n \in ArtNonces, h \in ArtHttp : GetDataUrl(g, t, d, s, n, h)
    \/ \E g \in ArtGames : ArtRelease(g)

SpecArtwork == ArtInit /\ [][ArtNext]_vars

\* the chunk size of the manifests planned, in bytes
PlanBytes == 2

\* file fA of two chunks, the last one short or full, and a second file fB
PlanManifests ==
    {ManifestOf(<< [file_id |-> "fA", path |-> PathA, size |-> PlanBytes + last, hash |-> "HA",
                    chunks |-> <<Chunk(0, "hA0", PlanBytes), Chunk(1, "hA1", last)>>],
                   [file_id |-> "fB", path |-> pb, size |-> PlanBytes, hash |-> "HB",
                    chunks |-> <<Chunk(0, "hB0", PlanBytes)>>] >>, "files", PlanBytes) :
        last \in 1..PlanBytes, pb \in PlanPaths \ {PathA}}

PlanInit ==
    /\ SessionInit(Scenario(ManifestSafe, FALSE, FALSE))
    /\ ScanIdle
    /\ BackgroundIdle
    /\ StoreIdle
    /\ GovIdle
    /\ WritersIdle
    /\ ThrottleIdle
    /\ DepotIdle
    /\ ManifestIdle
    /\ PeerIdle
    /\ FetchIdle
    /\ HealIdle
    /\ ArtIdle
    /\ plManifest \in PlanManifests
    /\ plCompleted \in [PlanKeys -> {NoRow, "stale"} \cup Hashes]
    /\ \E la \in {NoMeta} \cup {MetaOf(n) : n \in 0..(2 * PlanBytes)},
          lb \in {NoMeta, MetaOf(PlanBytes)} :
          plMeta = [p \in PlanTempPaths |-> IF p = PathAPart THEN la ELSE lb]
    /\ plPlan = EmptyPlan
    /\ plPc = "new"
    /\ plWritten = {}

PlanNext ==
    \/ PlanBuild
    \/ \E i \in 1..3 : PlanWriteChunk(i)

SpecPlan == PlanInit /\ [][PlanNext]_vars

\* two callers about to call start_download with the same download id
WritersInit ==
    /\ SessionInit(Scenario(ManifestSafe, FALSE, FALSE))
    /\ ScanIdle
    /\ BackgroundIdle
    /\ StoreIdle
    /\ GovIdle
    /\ ThrottleIdle
    /\ DepotIdle
    /\ ManifestIdle
    /\ PeerIdle
    /\ FetchIdle
    /\ HealIdle
    /\ ArtIdle
    /\ PlanIdle
    /\ wrRegistry = "none"
    /\ wrCall = [c \in WrCallers |-> "idle"]
    /\ wrRun = [r \in WrRuns |-> "none"]
    /\ wrControl = [r \in WrRuns |-> "Running"]
    /\ wrTask = [r \in WrRuns |-> WrNoTasks]
    /\ wrChan = [r \in WrRuns |-> <<>>]
    /\ wrRows = {}
    /\ wrOps = 0

WritersNext ==
    \/ \E c \in WrCallers : StartCheck(c) \/ StartInsert(c)
    \/ \E r \in WrRuns : RunDispatch(r) \/ RunRecv(r) \/ RunCompletes(r)
    \/ \E r \in WrRuns, ch \in WrChunks :
          \/ TaskStart(r, ch)
          \/ TaskFetchFails(r, ch)
          \/ TaskWriteBegins(r, ch)
          \/ \E ok \in BOOLEAN : TaskWriteEnds(r, ch, ok)
    \/ \E state \in {"Running", "Paused", "Cancelled"} : WriterControl(state)

SpecWriters == WritersInit /\ [][WritersNext]_vars

\* one session of two chunk tasks that share session_peer_blacklist, fetched
\* in process; a later run_download of the same download id starts with a
\* blacklist of its own
BlacklistJobs ==
    { FxJobOf(2, "none", <<"peerA", "cdn1">>), FxJobOf(2, "none", <<"cdn3c", "cdn1">>) }
BlacklistEnv == [http |-> 1, p2p |-> 2]

FxSessionStart ==
    /\ fxCfg = [engine |-> "Reqwest", strict |-> FALSE, env |-> BlacklistEnv, pre |-> 0]
    /\ \E j1 \in BlacklistJobs, j2 \in BlacklistJobs :
         /\ fxJob = [w \in FxWorkers |-> IF w = "k1" THEN j1 ELSE j2]
         /\ fxW = [w \in FxWorkers |-> SpawnedTask(fxJob[w])]
    /\ fxBlack = {}
    /\ fxChan = <<>>
    /\ fxRecv = "recv"
    /\ fxTracker = 0
    /\ fxRows = {}
    /\ fxPart = [w \in FxWorkers |-> "zero"]
    /\ fxDepot = [w \in FxWorkers |-> "absent"]
    /\ fxSeen = [w \in FxWorkers |-> NotSeen]

\* the session has ended and its tasks have returned; start_download runs
\* run_download again, which creates its channel, tracker and blacklist
FxRestart ==
    /\ fxRecv \in {"failed", "finalize"}
    /\ \A w \in FxWorkers : fxW[w].pc = "done"
    /\ \E j1 \in BlacklistJobs, j2 \in BlacklistJobs :
         /\ fxJob' = [w \in FxWorkers |-> IF w = "k1" THEN j1 ELSE j2]
         /\ fxW' = [w \in FxWorkers |-> SpawnedTask(IF w = "k1" THEN j1 ELSE j2)]
    /\ fxBlack' = {}
    /\ fxChan' = <<>>
    /\ fxRecv' = "recv"
    /\ fxTracker' = 0
    /\ fxRows' = {}
    /\ fxPart' = [w \in FxWorkers |-> "zero"]
    /\ fxDepot' = [w \in FxWorkers |-> "absent"]
    /\ fxSeen' = [w \in FxWorkers |-> NotSeen]
    /\ UNCHANGED <<notFxVars, fxCfg>>

BlacklistInit ==
    /\ SessionInit(Scenario(ManifestSafe, FALSE, FALSE))
    /\ ScanIdle
    /\ BackgroundIdle
    /\ StoreIdle
    /\ GovIdle
    /\ WritersIdle
    /\ PlanIdle
    /\ ArtIdle
    /\ HealIdle
    /\ ThrottleIdle
    /\ DepotIdle
    /\ ManifestIdle
    /\ PeerIdle
    /\ FxSessionStart

BlacklistNext ==
    \/ \E w \in FxWorkers : FxEnter(w)
    \/ \E w \in FxWorkers : \E ans \in Answers(fxJob[w]) : FxRequest(w, ans)
    \/ \E w \in FxWorkers, written \in BOOLEAN, stored \in BOOLEAN : FxWrite(w, written, stored)
    \/ FxRecvMsg
    \/ FxFinalize
    \/ FxRestart

SpecBlacklist == BlacklistInit /\ [][BlacklistNext]_vars

\* one session: the method and the configured max_concurrent_chunks are
\* drawn, and the number of chunk tasks spawned
GovMethods == {"balance", "cdn"}
GovChunkCounts == {4, 14}

GovInit ==
    /\ SessionInit(Scenario(ManifestSafe, FALSE, FALSE))
    /\ ScanIdle
    /\ BackgroundIdle
    /\ StoreIdle
    /\ WritersIdle
    /\ PlanIdle
    /\ ArtIdle
    /\ HealIdle
    /\ FetchIdle
    /\ ThrottleIdle
    /\ DepotIdle
    /\ ManifestIdle
    /\ PeerIdle
    /\ \E method \in GovMethods :
         gov = GovernorNew(method, resolve_method_concurrency(method, DEFAULT_MAX_CONCURRENT_CHUNKS \div 2))
    /\ \E n \in GovChunkCounts : sem = [held |-> 0, waiting |-> n]
    /\ gvChan = <<>>
    /\ gvSent = 0

GovNext ==
    \/ GovAcquire
    \/ \E t \in {"NetworkPressure", "Progress"} : GovTaskSends(t)
    \/ GovTaskEnds
    \/ GovRecv
    \/ GovTick

SpecGovernor == GovInit /\ [][GovNext]_vars

StoreInit ==
    /\ SessionInit(Scenario(ManifestSafe, FALSE, FALSE))
    /\ ScanIdle
    /\ BackgroundIdle
    /\ GovIdle
    /\ WritersIdle
    /\ PlanIdle
    /\ ArtIdle
    /\ HealIdle
    /\ FetchIdle
    /\ ThrottleIdle
    /\ DepotIdle
    /\ ManifestIdle
    /\ PeerIdle
    /\ StoreIdle

StoreNext ==
    \/ \E c \in StoreCallers, nanos \in 1..MaxClock : StoreBegin(c, nanos)
    \/ \E c \in StoreCallers : StoreCreate(c)
    \/ \E c \in StoreCallers : StoreWrite(c)
    \/ \E c \in StoreCallers : StoreRename(c)
    \/ StoreRead
    \/ \E n \in StoreNames : StoreGcRemoves(n)

SpecStore == StoreInit /\ [][StoreNext]_vars

\* two sessions of different download ids are running; the throttler has
\* just been constructed
BackgroundInit ==
    /\ SessionInit(Scenario(ManifestSafe, FALSE, FALSE))
    /\ ScanIdle
    /\ StoreIdle
    /\ GovIdle
    /\ WritersIdle
    /\ PlanIdle
    /\ ArtIdle
    /\ HealIdle
    /\ FetchIdle
    /\ ThrottleIdle
    /\ DepotIdle
    /\ ManifestIdle
    /\ PeerIdle
    /\ bgGc = [s \in BgSessions |-> "run"]
    /\ bgReset = [started |-> FALSE, loops |-> 0]
    /\ bgCall = [c \in ResetCallers |-> [pc |-> "idle", was |-> FALSE]]

BackgroundNext ==
    \/ \E s \in BgSessions : BgRunReturns(s)
    \/ \E s \in BgSessions, over \in BOOLEAN : BgGcCollect(s, over)
    \/ \E s \in BgSessions : BgGcRemove(s)
    \/ \E s \in BgSessions : BgTaskEnds(s)
    \/ \E c \in ResetCallers : ResetSwap(c)
    \/ \E c \in ResetCallers, in_runtime \in BOOLEAN : ResetSpawn(c, in_runtime)
    \/ \E c \in ResetCallers : ResetCallAgain(c)

SpecBackground == BackgroundInit /\ [][BackgroundNext]_vars

\* manifests scanned: none of six files passes; three files of which two
\* pass; no file at all
ScanManifests ==
    { << ScanFileOf("f1", "absent", TRUE), ScanFileOf("f2", "wrong_size", TRUE),
         ScanFileOf("f3", "wrong_hash", TRUE), ScanFileOf("f4", "unreadable", TRUE),
         ScanFileOf("f5", "no_metadata", FALSE), ScanFileOf("f6", "absent", FALSE) >>,
      << ScanFileOf("f1", "good", TRUE), ScanFileOf("f2", "wrong_hash", FALSE),
         ScanFileOf("f3", "wrong_hash", TRUE) >>,
      << >> }

ScanInit ==
    /\ SessionInit(Scenario(ManifestSafe, FALSE, FALSE))
    /\ BackgroundIdle
    /\ StoreIdle
    /\ GovIdle
    /\ WritersIdle
    /\ PlanIdle
    /\ ArtIdle
    /\ HealIdle
    /\ FetchIdle
    /\ ThrottleIdle
    /\ DepotIdle
    /\ ManifestIdle
    /\ PeerIdle
    /\ scFiles \in ScanManifests
    /\ scNext = 0
    /\ \E worker_count \in ScanThreads :
         scW = [t \in ScanThreads |-> IF t <= worker_count THEN [pc |-> "fetch", index |-> 0]
                                      ELSE ScanThreadIdle]
    /\ scResults = <<>>
    /\ scSummary = NoSummary

ScanNext ==
    \/ \E t \in ScanThreads : ScanFetch(t)
    \/ \E t \in ScanThreads : ScanPush(t)
    \/ ScanJoin

SpecScan == ScanInit /\ [][ScanNext]_vars

(***************************************************************************)
(* Properties                                                              *)
(***************************************************************************)
\* the spawned task of the last start_download ran to its end
Ended == pc = "idle" /\ obs.outcome \in {"completed", "failed", "cancelled"}

\* paths of install files, as opposed to .part and .tmp files
FinalPaths == {p \in AllPaths : p[Len(p)].ext \notin {"part", "tmp"}}

ManifestFilesInstalled ==
    \A i \in 1..Len(manifest.files) :
        disk[manifest.files[i].path] = Expected(manifest.files[i])

\* C1: a session started again after an interruption (cancel, failed chunk,
\* process exit), whose remaining fetches all succeed, ends completed with every
\* manifest file at its final path holding the bytes of an uninterrupted run.
C1_ResumeCompletes ==
    ( /\ Ended
      /\ obs.resumed
      /\ ~is_archive_mode(manifest)
      /\ ~obs.budgetFailed
      /\ ~obs.cancelEver
      /\ ~obs.chunkFailed
      /\ obs.pauseState = "none" )
    => (obs.outcome = "completed" /\ ManifestFilesInstalled)

\* C2: no file exists outside install_dir at any time: no operation of a
\* session creates, writes or renames a file at a location outside install_dir.
C2_NothingOutsideInstallDir ==
    \A p \in AllPaths : Exists(disk, p) => InsideInstallDir(p)

\* C3: a session writes status completed (download_states or the downloads row)
\* only after its post-download scan has passed.
C3_CompletedOnlyAfterScan ==
    obs.wroteCompleted => obs.scanPassed

\* C4: a session that starts with every chunk of the manifest valid in the
\* depot ends completed, sends no chunk request and hands no job to a chunk task.
C4_DepotSufficient ==
    (Ended /\ obs.depotFull /\ ~obs.budgetFailed /\ ~obs.cancelEver)
    => (obs.outcome = "completed" /\ ~obs.requested /\ ~obs.submitted)

\* C5: once cancel_download returned for a registered session (and no pause or
\* resume followed), the run ends with persisted status cancelled and without a
\* download-runtime-error event, whatever phase it was cancelled in.
C5_CancelEndsCancelled ==
    ( /\ Ended
      /\ obs.cancelStanding
      /\ ~obs.budgetFailed
      /\ ~obs.chunkFailed
      /\ ~obs.expired )
    => (dbStatus = "cancelled" /\ obs.events = 0)

\* C6: a session one of whose chunks failed on every URL (and that was not
\* cancelled) ends failed with exactly one download-runtime-error event and
\* with neither a rename of .part files nor a manifest.json write.
C6_ChunkFailureEndsFailed ==
    (Ended /\ obs.chunkFailed /\ ~obs.cancelEver)
    => ( /\ obs.outcome = "failed"
         /\ obs.events = 1
         /\ ~obs.renamed
         /\ ~obs.manifestWritten )

\* C7: a fresh session that was paused and then resumed, none of whose fetches
\* was failed by the network and that was not cancelled, ends completed.
C7_PauseResumeCompletes ==
    ( /\ Ended
      /\ obs.pauseState = "resumed"
      /\ ~obs.resumed
      /\ ~obs.budgetFailed
      /\ ~obs.cancelEver
      /\ ~obs.chunkFailed )
    => obs.outcome = "completed"

\* C8: when a session ends failed or cancelled, every file that existed at a
\* final install path when it started is still there with the same content.
C8_FailedSessionKeepsFiles ==
    (Ended /\ obs.outcome \in {"failed", "cancelled"})
    => \A p \in FinalPaths :
          Exists(obs.diskAtStart, p) => disk[p] = obs.diskAtStart[p]

\* the safety margin as the specification states it
StatedSafety(required) ==
    IF required \div 20 <= 256 THEN 256
    ELSE IF required \div 20 >= 2048 THEN 2048
    ELSE required \div 20

StatedShortfall(b) ==
    b.available_bytes + b.reclaimable_bytes
        < b.preallocate_bytes + b.extraction_bytes + b.cache_write_bytes
          + StatedSafety(b.preallocate_bytes + b.extraction_bytes + b.cache_write_bytes)

\* the run in progress, or the last one, has evaluated its storage budget
BudgetEvaluated == obs.budget # NoBudget

\* C9: the budget check fails the session exactly when available + reclaimable
\* < preallocate + extraction + cache writes + safety (safety = max(256 MiB,
\* required / 20) capped at 2 GiB); a session it fails ends failed with the
\* insufficient-space error, having deleted, created or resized no file, spawned
\* no chunk task and sent no chunk request.
C9_StorageBudget ==
    /\ BudgetEvaluated => (obs.budgetFailed <=> StatedShortfall(obs.budget))
    /\ obs.budgetFailed =>
          /\ pc \in {"epilogue", "idle"}
          /\ ~obs.touched /\ ~obs.requested /\ ~obs.submitted
          /\ ~obs.renamed /\ ~obs.manifestWritten
          /\ ~obs.foreignWrite => disk = obs.diskAtStart
          /\ Ended => obs.outcome = "failed" /\ result.text = "insufficient disk space"
    /\ (BudgetEvaluated /\ ~obs.budgetFailed) => result.text # "insufficient disk space"

\* a session failed by the budget check with a margin above the 256 MiB floor
C9_Witness ==
    /\ Ended
    /\ obs.budgetFailed
    /\ obs.outcome = "failed"
    /\ obs.budget.safety_bytes > STORAGE_SAFETY_MARGIN_BYTES

\* C10: with a positive limit, the bytes acquire returned for during any one
\* second (any ten consecutive ticks) are at most max_bytes_per_second.
C10_SlidingWindowBound ==
    thrMax > 0 => ReleasedInWindow <= thrMax

\* C11: with the reset task running and a positive limit, every call of
\* acquire(n) eventually returns, for every n a chunk task passes (the length
\* of one chunk), so a throttled session never waits forever on the throttler.
C11_AcquireReturns ==
    \A c \in LiveCallers :
        (thrMax > 0 /\ thrCallers[c].at # "idle") ~> (thrCallers[c].at = "idle")

\* C12: from every depot state, whatever file already sits at the entry path
\* of h, after store(h, b) with h = SHA-256(b) has returned Ok the next call
\* load(h, |b|) returns Some(b).
C12_StoreThenLoad ==
    ( /\ dcLast.op = "load"
      /\ dcLast.prev # NoStore
      /\ dcLast.prev.hash = dcLast.hash
      /\ HashText(dcLast.hash) = compute_sha256_hex(dcLast.prev.data)
      /\ dcLast.size = BlobLen(dcLast.prev.data) )
    => dcLast.ret = Ret("Some", dcLast.prev.data)

\* the entry that load found does not pass the length or the digest comparison
LoadFoundMismatch ==
    /\ dcLast.pre \notin {"-", "absent"}
    /\ \/ BlobLen(dcLast.pre) # dcLast.size
       \/ ~eq_ignore_ascii_case(compute_sha256_hex(dcLast.pre), HashText(dcLast.hash))

\* C13: load(hash, size) returns bytes only if the entry exists, is exactly
\* size bytes long and its SHA-256 equals hash; an existing entry that fails
\* the length or the hash comparison is removed and load returns absent.
C13_LoadValidOrRemoves ==
    dcLast.op = "load" =>
        /\ dcLast.ret.tag = "Some" =>
              /\ dcLast.pre \notin {"-", "absent"}
              /\ ~LoadFoundMismatch
              /\ dcLast.ret.data = dcLast.pre
        /\ LoadFoundMismatch =>
              /\ dcLast.ret.tag = "None"
              /\ dcLast.post = "absent"

\* C14: has, load and store fail with InvalidHash, touching no depot file,
\* whenever the hash argument is not exactly 64 lowercase hex characters.
C14_InvalidHashRejected ==
    (dcLast.op \in {"has", "load", "store"} /\ dcLast.hash \notin CanonicalArgs)
    => (dcLast.ret.tag = "InvalidHash" /\ ~dcLast.opened)

\* what gc_if_needed collected and did not remove
GcRetained == gcSeen.collected \ gcSeen.removed

\* C15: when gc_if_needed returns the files under the depot root total at
\* most max_bytes; it removes nothing when the total was within max_bytes,
\* removes in ascending mtime order and stops as soon as the total is within
\* max_bytes, so nothing it kept is older than something it removed.
C15_GcWithinBudget ==
    dcLast.op = "gc" =>
        /\ DepotTotal(dcFiles) <= DepotMaxBytes
        /\ gcSeen.total0 <= DepotMaxBytes => gcSeen.removed = {}
        /\ \A r \in gcSeen.removed : \A k \in GcRetained : k.modified >= r.modified
        /\ \A r \in gcSeen.removed :
              gcSeen.total0 - SumOver([e \in gcSeen.removed \ {r} |-> e.size],
                                      gcSeen.removed \ {r}) > DepotMaxBytes

\* the plan of a further run for the same manifest and install directory,
\* with the completion records of the downloads database as they are now
PlanAgain ==
    build_download_plan(manifest, disk, chunkRows, load_previous_manifest(disk, manifest))

\* the last session planned with an empty completed map, fetched every chunk
\* itself and ran to completion
FreshSessionCompleted ==
    /\ Ended
    /\ obs.outcome = "completed"
    /\ obs.emptyCompleted
    /\ ~obs.hydrated
    /\ orphans = {}

\* C16: after a session planned with an empty completed map has downloaded
\* every chunk and completed, planning again for the same manifest and install
\* directory with the completion records it produced yields no chunk job.
C16_ReplanIsEmpty ==
    FreshSessionCompleted => PlanAgain.chunks = <<>>

\* C17: if the process exits at any point during write_manifest, a later read
\* of manifest.json yields the complete previous content or the complete new
\* content, never a truncated or mixed file; after write_manifest returned Ok
\* the file holds exactly the new content.
C17_ManifestAtomic ==
    /\ mfPc \in {"create", "write", "renamed", "crashed"} =>
          mfDisk[MANIFEST_FILE] \in {mfPrev, mfPayload}
    /\ (mfRead.done /\ mfRead.afterCrash) =>
          \/ mfRead.ok /\ mfRead.value \in {mfPrev, mfPayload}
          \/ ~mfRead.ok /\ mfPrev = Absent /\ mfDisk[MANIFEST_FILE] = Absent
    /\ (mfPc = "returned" /\ mfResult = "Ok") => mfDisk[MANIFEST_FILE] = mfPayload
    /\ (mfRead.done /\ mfResult = "Ok") => (mfRead.ok /\ mfRead.value = mfPayload)

\* a read after an exit in the middle of the write: part of the new payload
\* is in the temporary file and manifest.json still reads as the previous one
C17_Witness ==
    /\ mfRead.done /\ mfRead.afterCrash
    /\ mfPrev \in ManifestPayloads
    /\ mfPrev # mfPayload
    /\ Len(mfDisk[ManifestTempPath]) \in 1..(Len(mfPayload) - 1)
    /\ mfRead.ok /\ mfRead.value = mfPrev

\* the address ranges the modes are stated in
InLoopback(ip) == IF ip.v = 4 THEN ip.o[1] = 127 ELSE ip.o = <<0, 0, 0, 0, 0, 0, 0, 1>>
InRfc1918(ip) ==
    /\ ip.v = 4
    /\ \/ ip.o[1] = 10
       \/ ip.o[1] = 172 /\ ip.o[2] \in 16..31
       \/ ip.o[1] = 192 /\ ip.o[2] = 168
InLinkLocal(ip) ==
    IF ip.v = 4 THEN ip.o[1] = 169 /\ ip.o[2] = 254 ELSE ip.o[1] \in 65152..65215
InCgnat(ip) == ip.v = 4 /\ ip.o[1] = 100 /\ ip.o[2] \in 64..127
InUniqueLocal(ip) == ip.v = 6 /\ ip.o[1] \in 64512..65023

\* the scope of a mode as stated: LAN-only is loopback, RFC1918 and
\* link-local; LAN+VPN adds CGNAT and IPv6 unique-local
StatedScope(ip, mode) ==
    \/ InLoopback(ip) \/ InRfc1918(ip) \/ InLinkLocal(ip)
    \/ mode = "LanVpn" /\ (InCgnat(ip) \/ InUniqueLocal(ip))

\* a connection has been handled to its end
PeerAnswered == peerPc = "idle" /\ peerLast.req # NoRequest

\* C18: the peer server sends a health or chunk payload only to source
\* addresses in the scope of its mode, and the addresses it lets through are
\* exactly that scope: loopback, RFC1918 and link-local in lan_only, those plus
\* CGNAT and IPv6 unique-local in lan_vpn, a public address in neither.
C18_PeerAcl ==
    PeerAnswered =>
        /\ peerLast.code = 200 => StatedScope(peerLast.ip, peerMode)
        /\ peerLast.code = 403 <=> ~StatedScope(peerLast.ip, peerMode)

\* the response the ordered rules give to a request that was sent
StatedResponse ==
    LET r == peerLast.req
        chunk == r.method = "GET" /\ r.target = "chunks"
    IN  IF ~StatedScope(peerLast.ip, peerMode) THEN 403
        ELSE IF r.method # "GET" THEN 405
        ELSE IF r.target \in {"health", "health?"} THEN 200
        ELSE IF chunk /\ r.hash \notin CanonicalArgs THEN 400
        ELSE IF chunk /\ ~peerLast.present THEN 404
        ELSE IF chunk THEN 200
        ELSE 404

\* C19: the response to a connection is fixed by the first matching rule:
\* source outside the mode's scope 403 'peer access denied' and no depot read,
\* method other than GET 405, /health 200 JSON, /chunks/<h> with malformed h
\* 400, well-formed h without a depot file 404, with a depot file 200 and
\* Content-Length equal to the file length, any other path 404.
C19_ResponseRules ==
    (PeerAnswered /\ peerLast.req.method # "eof") =>
        /\ peerLast.code = StatedResponse
        /\ peerLast.code = 403 => (peerLast.body = "peer access denied" /\ ~peerLast.opened)
        /\ (peerLast.code = 200 /\ peerLast.req.target = "chunks") =>
              /\ peerLast.body = "chunk"
              /\ peerLast.length = BlobLen(dcFiles[RouteTable[peerLast.req].stem])
        /\ (peerLast.code = 200 /\ peerLast.req.target # "chunks") => peerLast.body = "json"

\* C20: GET /chunks/<h> from an allowed source is answered 400, with no depot
\* file opened, whenever h is not exactly 64 lowercase hex characters (wrong
\* length, a non-hex character or an upper-case hex digit).
C20_BadHashIs400 ==
    ( /\ PeerAnswered
      /\ is_allowed_remote(peerLast.ip, peerMode)
      /\ peerLast.req.method = "GET" /\ peerLast.req.target = "chunks"
      /\ peerLast.req.hash \notin CanonicalArgs )
    => (peerLast.code = 400 /\ ~peerLast.opened)

\* C21: when share_enabled is false no GET /chunks/<hash> request, from any
\* source address, is answered with chunk bytes read from the depot.
C21_NoShareNoChunks ==
    (/\ ~peerShare
     /\ peerPc = "idle"
     /\ peerLast.req.method = "GET"
     /\ peerLast.req.target = "chunks")
    => ~(peerLast.code = 200 /\ peerLast.body = "chunk")

\* the case of C22: default retry policy, in-process fetcher, a job whose URLs
\* are CDN URLs; the primary answered 503 to every request made to it, the
\* first request to the fallback returned the correct bytes and they were
\* written
PrimaryDownFallbackServes ==
    /\ fxCfg.env = DefaultEnv
    /\ fxCfg.engine = "Reqwest"
    /\ fxJob["k1"].urls = <<"cdn1", "cdn2">>
    /\ fxW["k1"].pc = "done"
    /\ fxW["k1"].ret = "Ok"
    /\ fxW["k1"].served = 2
    /\ fxW["k1"].req[2] = 1
    /\ fxW["k1"].all503[1]

FetchFailed(w) ==
    fxW[w].ret \in {"all endpoints failed", "network error", "aria2 failed",
                    "chunk hash mismatch", "decompress failed"}

TrackerAccounts ==
    /\ fxRecv # "idle" => fxTracker <= FxTotalBytes
    /\ \A w \in FxWorkers :
         /\ fxSeen[w].success => fxSeen[w].credit = fxJob[w].size
         /\ fxW[w].pc \in {"spawned", "aria", "send"} => fxSeen[w].credit = 0
         /\ FetchFailed(w) => fxSeen[w].credit = 0
    /\ (\A w \in FxWorkers : fxJob[w] # NoJob => fxSeen[w].success)
         => fxTracker = FxTotalBytes

\* C23: the tracker's downloaded-byte count never decreases and never exceeds
\* total_bytes; a chunk whose Success was received has raised it by exactly
\* its declared size (Progress bytes plus top-up), failed attempts have
\* raised it by nothing, and it equals total_bytes once every chunk succeeded.
C23_TrackerAccounting ==
    /\ []TrackerAccounts
    /\ [][fxTracker' >= fxTracker]_vars

\* a chunk served after a failed request, with fewer wire bytes than its
\* size, has been topped up and the receive loop has ended
C23_Witness ==
    /\ fxRecv = "finalize"
    /\ fxSeen["k1"].success
    /\ fxW["k1"].accounted > 0
    /\ fxW["k1"].accounted < fxJob["k1"].size
    /\ fxW["k1"].req[1] > 1
    /\ fxCfg.pre > 0

\* C24: whenever the stored USN checkpoint is invalid (journal id changed,
\* stored USN outside [first_usn, next_usn], unparsable value, journal query
\* error), the scan returns the per-file statuses and the summary counts of a
\* full scan of the same install run with no checkpoint stored.
C24_InvalidCheckpointFullScan ==
    (shLast.scanned /\ shLast.use_usn /\ shLast.invalid # "no")
    => /\ shLast.statuses = shLast.reference
       /\ shLast.summary = shLast.reference_summary
       /\ ~shLast.usn_delta_used

\* a scan with a checkpoint older than the journal's first USN, of an install
\* holding a file that the file index would still have passed as ok
C24_Witness ==
    /\ shLast.scanned
    /\ shLast.use_usn
    /\ shLast.invalid = "range"
    /\ shLast.stale
    /\ shLast.summary.corrupt_files > 0

\* the entries a USN-delta scan of the current install reports, and the
\* changed set it reads from the journal
DeltaItems == scan_with_usn_delta(shCheckpoint, shJournal, TRUE, shDisk, shIndex).items
DeltaChanged ==
    collect_changed_paths_since_checkpoint(shCheckpoint, shJournal, TRUE, shDisk).changed
SnapshotMatchesFile(snapshot, f) ==
    /\ snapshot.size_bytes = f.size
    /\ snapshot.modified_at = f.mtime
SnapshotHashIsDeclared(snapshot, entry) ==
    to_ascii_lowercase(trim(snapshot.canonical_hash)) = ExpectedHash(entry)
\* a USN-delta scan has just reported from the journal and the file index
DeltaScanStep ==
    /\ HealScan(TRUE, TRUE)
    /\ shLast'.usn_delta_used
    /\ shLast'.reused = {rel \in DOMAIN DeltaItems : ReusedOk(DeltaItems[rel])}

IsLegacyV1(f) ==
    /\ f.exists
    /\ \/ f.data # <<>> /\ ~StartsWithMagic(f.data, LEGACY_MAGIC)
       \/ /\ StartsWithMagic(f.data, LEGACY_MAGIC)
          /\ VersionOf(f.data) = LEGACY_VERSION
          /\ Decrypt(ServiceKey, NonceOf(f.data), CiphertextOf(f.data)).tag = "Some"
LegacyImage(f) ==
    IF StartsWithMagic(f.data, LEGACY_MAGIC) THEN CiphertextOf(f.data)[1].plain ELSE f.data
MigratingCall ==
    /\ awLast.op = "get"
    /\ IsLegacyV1(awLast.legacy_before)
    /\ ~awLast.v2_before.exists

\* C25: a get_data_url for a key that has a legacy v1 file (plaintext, or
\* sealed with the service key) and no v2 entry returns the legacy image bytes;
\* afterwards the legacy file is gone and a v2 entry holds the bytes; the
\* next get_data_url for the same key returns the same bytes.
C25_MigratedOnAccess ==
    MigratingCall
    => /\ awLast.ret = "Some"
       /\ decode_data_url(awLast.url) = LegacyImage(awLast.legacy_before)
       /\ ~awLegacy[LegacyPath(awLast.key[1], awLast.key[2], awLast.key[3])].exists
       /\ awV2[awLast.key].exists
       /\ read_v2_payload(ServiceKey, awV2, awLast.key).payload
              = LegacyImage(awLast.legacy_before)
C25_SameBytesAgain ==
    [][(MigratingCall /\ awLast'.op = "get" /\ awLast'.key = awLast.key /\ awCalls' # awCalls)
       => (awLast'.ret = "Some" /\ awLast'.url = awLast.url)]_vars
C25_LegacyMigration == []C25_MigratedOnAccess /\ C25_SameBytesAgain

\* a sealed legacy file was migrated and the key was asked for again
C25_Witness ==
    /\ awLast.op = "get"
    /\ awLast.repeat
    /\ awLast.ret = "Some"
    /\ decode_data_url(awLast.url) = Image("sealed", 40)
    /\ awMetrics.migrations = 1
    /\ awMetrics.memory_hits = 1

\* how often the chunk index of file f is in a list of jobs or of rows
TimesInChunks(f, ch) ==
    Cardinality({i \in 1..Len(plPlan.chunks) :
                    /\ plPlan.chunks[i].file_id = f.file_id
                    /\ plPlan.chunks[i].index = ch.index})
TimesInPrecompleted(f, ch) ==
    Cardinality({i \in 1..Len(plPlan.precompleted_chunks) :
                    /\ plPlan.precompleted_chunks[i].file_id = f.file_id
                    /\ plPlan.precompleted_chunks[i].chunk_index = ch.index})
\* the plan splits the manifest chunks by the test done(f, ch)
PlanSplitsBy(done(_, _)) ==
    plPc = "planned" =>
        \A i \in 1..Len(plManifest.files) :
            LET f == plManifest.files[i] IN
            \A j \in 1..Len(f.chunks) :
                LET ch == f.chunks[j] IN
                IF done(f, ch)
                THEN TimesInChunks(f, ch) = 0 /\ TimesInPrecompleted(f, ch) = 1
                ELSE TimesInChunks(f, ch) = 1 /\ TimesInPrecompleted(f, ch) = 0
\* the temp file as the planner saw it (no chunk written since)
TempMeta(f) == plMeta[with_extension(f.path, "part")]
HashCompleted(f, ch) == plCompleted[<<f.file_id, ch.index>>] = ch.hash
DoneByWholeSlot(f, ch) ==
    /\ HashCompleted(f, ch)
    /\ TempMeta(f).exists
    /\ TempMeta(f).len >= (ch.index + 1) * plManifest.chunk_size
DoneByRegion(f, ch) ==
    /\ HashCompleted(f, ch)
    /\ TempMeta(f).exists
    /\ TempMeta(f).len >= ch.index * plManifest.chunk_size + ch.size

\* C26 as stated: a manifest chunk is left out of chunks[] iff the completed map
\* holds its hash and the file's .part file is at least (index+1)*chunk_size
\* bytes long; every other chunk is in chunks[] exactly once and every chunk
\* left out is in precompleted_chunks[] exactly once.
C26_DoneIffWholeSlot == plWritten = {} => PlanSplitsBy(DoneByWholeSlot)

\* C26 amended: the length the .part file must have is the end of the chunk's
\* region, index*chunk_size + chunk.size.
C26_DoneIffRegion == plWritten = {} => PlanSplitsBy(DoneByRegion)

\* a short last chunk whose region ends where the .part file ends is left out
C26_Witness ==
    /\ plPc = "planned"
    /\ plWritten = {}
    /\ plManifest.files[1].chunks[2].size < plManifest.chunk_size
    /\ plMeta[PathAPart] = MetaOf(plManifest.chunk_size + plManifest.files[1].chunks[2].size)
    /\ \E i \in 1..Len(plPlan.precompleted_chunks) :
          /\ plPlan.precompleted_chunks[i].file_id = "fA"
          /\ plPlan.precompleted_chunks[i].chunk_index = 1

\* the name of a path's last component in full, and the path with ".part"
\* appended to that name
FullName(c) == IF c.ext = "" THEN c.stem ELSE c.stem \o "." \o c.ext
AppendPart(path) == [path EXCEPT ![Len(path)] = Normal(FullName(path[Len(path)]), "part")]
PlanTempOf(file_id) ==
    {plPlan.chunks[i].temp_path : i \in {k \in 1..Len(plPlan.chunks) :
                                            plPlan.chunks[k].file_id = file_id}}

\* C30: each manifest file's temp path is its final path with ".part"
\* appended; two manifest files with distinct paths have distinct temp paths;
\* no temp path is another manifest file's final path; no .part file gets
\* chunks of two files.
C30_DistinctTempPaths ==
    plPc = "planned" =>
        /\ \A i \in 1..Len(plPlan.files_to_finalize) :
              plPlan.files_to_finalize[i].temp_path
                  = AppendPart(plPlan.files_to_finalize[i].final_path)
        /\ \A i, j \in 1..Len(plManifest.files) :
              LET f == plManifest.files[i]
                  g == plManifest.files[j]
              IN  (i # j /\ f.path # g.path) =>
                     /\ PlanTempOf(f.file_id) \cap PlanTempOf(g.file_id) = {}
                     /\ g.path \notin PlanTempOf(f.file_id)
        /\ \A p \in PlanTempPaths : Cardinality(plMeta[p].owners) <= 1

\* C27: with either engine, the bytes written to the .part file and stored in
\* the depot have been decompressed and hash to the chunk's hash, and a
\* completion record is written only after write_chunk has returned Ok: no
\* record exists for a chunk whose region does not hold verified bytes.
VerifiedBytes(w, data) == decompress_if_needed(fxJob[w], data) /\ data = "good"
C27_VerifyWriteRecord ==
    \A w \in FxWorkers :
        /\ fxPart[w] # "zero" => VerifiedBytes(w, fxPart[w])
        /\ fxDepot[w] # "absent" => VerifiedBytes(w, fxDepot[w])
        /\ fxDepot[w] # "absent" => fxPart[w] # "zero"
        /\ w \in fxRows => fxW[w].ret = "Ok" /\ fxPart[w] # "zero"

\* a peer's bytes failed verification and were not written; the chunk was
\* then fetched elsewhere, written, stored and recorded
C27_Witness ==
    /\ fxBlack # {}
    /\ "k1" \in fxRows
    /\ fxPart["k1"] = "good"
    /\ fxDepot["k1"] = "good"

\* C28: a .part file is renamed onto its final path only after the
\* post-download scan of the run has reported no missing, corrupt or error
\* file, and manifest.json is written after the rename: the closing phases
\* come in the order scan, extraction, rename, manifest write.
C28_RenameAfterScan ==
    /\ obs.renamed => obs.scanPassed
    /\ obs.manifestWritten => obs.scanPassed

\* C29: at any instant at most one task is inside write_chunk for a given
\* chunk region, whatever the interleaving of start_download calls with the
\* same id, pause, resume, cancel, a chunk failure that ends the run with
\* other tasks in flight, and a restart after the run has ended.
C29_SingleWriter ==
    \A ch \in WrChunks : Cardinality({r \in WrRuns : wrTask[r][ch] = "write"}) <= 1

\* URLs of the job of task w that were neither requested nor skipped as
\* blacklisted
UntriedUrls(w) ==
    {i \in 1..Len(fxJob[w].urls) :
        /\ fxW[w].req[i] = 0
        /\ peer_url_fingerprint(fxJob[w].urls[i]) \notin fxBlack}

\* C31: a chunk is reported failed by the URL loop only after every URL of
\* its ordered list has been exhausted; a transient error at any phase of a
\* request (connect, timeout, retryable status, error while the body is
\* streamed) never fails the chunk while untried URLs remain.
C31_FailsOnlyWhenExhausted ==
    \A w \in FxWorkers :
        fxW[w].ret \in {"all endpoints failed", "network error"} => UntriedUrls(w) = {}

\* NetworkPressure messages in a channel content
PressureSent(ch) == Cardinality({i \in 1..Len(ch) : ch[i].t = "NetworkPressure"})

\* C32: every retryable failure of a chunk request (5xx, 408, 429, connect
\* or timeout error), the failure of a URL's last permitted attempt
\* included, sends exactly one NetworkPressure event to the manager, and a
\* non-retryable failure sends none.
C32_PressurePerRetryableFailure ==
    [][\A w \in FxWorkers : \A ans \in Answers(fxJob[w]) :
          (FxRequest(w, ans) /\ ans.kind # "ok")
          => PressureSent(fxChan') = PressureSent(fxChan) + (IF Retryable(ans) THEN 1 ELSE 0)]_vars

\* C33: bytes of a CDN URL that fail decompression or verification make the
\* fetcher request the same URL again while attempts remain; bytes of a peer
\* URL that fail make it move to the next URL at once.
C33_CdnMismatchRetried ==
    [][\A w \in FxWorkers : \A ans \in Answers(fxJob[w]) :
          (FxRequest(w, ans) /\ ans.kind = "ok" /\ ~VerifiedBytes(w, ans.content))
          => LET i == fxW[w].url
                 is_peer == peer_url_fingerprint(fxJob[w].urls[i]) # "none"
                 max_attempts == resolve_http_retry_policy(is_peer, fxCfg.env)
             IN  IF ~is_peer /\ fxW[w].attempt < max_attempts
                 THEN /\ fxW'[w].pc = "send"
                      /\ fxW'[w].url = i
                      /\ fxW'[w].attempt = fxW[w].attempt + 1
                 ELSE fxW'[w].url > i]_vars

\* C35: with the external engine selected and strict mode off, a chunk is
\* reported failed by download_chunk only after the in-process fetcher has
\* requested a URL of the chunk, whatever made the engine fail (a process or
\* I/O error, bytes that fail decompression or verification).
C35_EngineFailureFallsBack ==
    \A w \in FxWorkers :
        (fxCfg.engine = "Aria2c" /\ ~fxCfg.strict /\ fxW[w].pc = "done" /\ FetchFailed(w))
        => \E i \in 1..Len(fxJob[w].urls) : fxW[w].req[i] > 0

\* the URLs built by build_chunk_peer_urls (<peer_base>/chunks/<hash>); the
\* others come from the manifest
IsPeerUrl(url) == url = "peerA"

\* task w takes up a URL of its list in this step (the head of `for url in
\* urls` let it through)
ReachesUrl(w) ==
    /\ fxW'[w].pc = "send"
    /\ fxW[w].pc # "send" \/ fxW'[w].url # fxW[w].url

\* the positions of its list that task w passes over in this step without a
\* request
SkippedUrls(w) ==
    IF fxW'[w].url > fxW[w].url /\ fxW[w].pc \in {"spawned", "aria", "send"}
    THEN {j \in (fxW[w].url + 1)..(fxW'[w].url - 1) : j <= Len(fxJob[w].urls)}
    ELSE {}

\* C34: once a peer has served bytes that fail decompression or
\* verification, no chunk task of the session that reaches a URL of that
\* peer afterwards requests it, for any chunk; the blacklist does not
\* outlive the session, and a CDN URL is never skipped because of it.
C34_BlacklistedPeerSkipped ==
    [][/\ \A w \in FxWorkers : \A ans \in Answers(fxJob[w]) :
             (/\ FxRequest(w, ans)
              /\ ans.kind = "ok"
              /\ ~VerifiedBytes(w, ans.content)
              /\ IsPeerUrl(fxJob[w].urls[fxW[w].url]))
             => peer_url_fingerprint(fxJob[w].urls[fxW[w].url]) \in fxBlack'
       /\ fxRecv' = fxRecv => fxBlack \subseteq fxBlack'
       /\ \A w \in FxWorkers :
             ReachesUrl(w)
             => peer_url_fingerprint(fxJob'[w].urls[fxW'[w].url]) \notin fxBlack'
       /\ (fxRecv # "recv" /\ fxRecv' = "recv") => fxBlack' = {}
       /\ \A w \in FxWorkers : \A j \in SkippedUrls(w) : IsPeerUrl(fxJob[w].urls[j])]_vars

\* C36: while the governor is enabled, each NetworkPressure event received
\* when the current limit is above min_permits lowers the number of permits
\* obtainable by chunk tasks (max_permits minus the permits the governor
\* holds) by exactly one, also when every permit is held by a task at that
\* moment; an event received at min_permits changes nothing, and the current
\* limit never falls below min_permits.
C36_PressureLowersLimit ==
    /\ [](gov.enabled => current_limit(gov) >= gov.min_permits)
    /\ [][(gvChan # <<>> /\ Head(gvChan) = "NetworkPressure" /\ gvChan' = Tail(gvChan)
           /\ gov.enabled)
          => IF current_limit(gov) > gov.min_permits
             THEN current_limit(gov') = current_limit(gov) - 1
             ELSE current_limit(gov') = current_limit(gov)]_vars

\* C37: under any interleaving of store, load, has, gc_if_needed and
\* peer-server reads, the file at the entry's final path is never partially
\* written: at every instant it is absent or holds the complete bytes passed
\* to one store call.
C37_EntryNeverPartial ==
    /\ swDir[EntryName] # 0 => swLen[swDir[EntryName]] = DepotBlocks
    /\ swRead # "partial"

\* C38: the depot GC and the throttler's window reset are each carried out
\* by at most one task at a time: no two executions of gc_if_needed overlap,
\* even when several sessions end at the same moment, and no two
\* window-reset loops coexist however often start_reset_task is called.
C38_OneBackgroundTask ==
    /\ Cardinality({s \in BgSessions : InGc(s)}) <= 1
    /\ bgReset.loops <= 1

\* how often file number i (from 0) has been taken for a scan
TimesScanned(i) ==
    Cardinality({k \in 1..Len(scResults) : scResults[k].path = scFiles[i + 1].path})
    + Cardinality({t \in ScanThreads : scW[t].pc = "scan" /\ scW[t].index = i})

\* C39: for any worker count and any interleaving of the scanner threads,
\* every manifest file is scanned by exactly one thread exactly once, so the
\* summary has total = number of manifest files = verified + missing +
\* corrupt + error, hashed <= total and at most 5 first_failures.
C39_ScannedExactlyOnce ==
    /\ \A i \in 0..(Len(scFiles) - 1) : TimesScanned(i) <= 1
    /\ scSummary # NoSummary =>
         /\ \A i \in 0..(Len(scFiles) - 1) : TimesScanned(i) = 1
         /\ scSummary.total_files = Len(scFiles)
         /\ scSummary.total_files = scSummary.verified_files + scSummary.missing_files
                                    + scSummary.corrupt_files + scSummary.error_files
         /\ scSummary.hashed_files <= scSummary.total_files
         /\ Len(scSummary.first_failures) <= 5
         /\ scSummary.verified_files
              = Cardinality({i \in 1..Len(scFiles) : ScanOutcome(scFiles[i]).status = "Ok"})

\* three threads scanned six failing files, the results were pushed out of
\* manifest order and the sixth failure was left out of first_failures
C39_Witness ==
    /\ scSummary # NoSummary
    /\ Len(scFiles) = 6
    /\ \A t \in ScanThreads : scW[t].pc = "exit"
    /\ scResults[1].path # "f1"
    /\ Len(scSummary.first_failures) = 5
    /\ scSummary.corrupt_files = 2 /\ scSummary.missing_files = 2 /\ scSummary.error_files = 2
    /\ scSummary.hashed_files = 2

====
